---- MODULE Spec2Model ----
(***************************************************************************)
(* Model of the conversational-analytics core of DashboardAgente:          *)
(* utils.py (limpiar_texto, es_saludo_basico, clasificar_consulta,         *)
(* calcular_metricas_conversacion), data_loader.py                         *)
(* (cargar_y_procesar_datos, aplicar_filtros,                              *)
(* preparar_datos_descarga, obtener_top_preguntas) and                     *)
(* the part of app.py (main, render_exploracion_datos) that calls them.    *)
(*                                                                         *)
(* Text is a sequence of one-character strings, so that lower(), strip(),  *)
(* re.sub(), split(), title() and the `in` substring test are computed     *)
(* character by character.  A cell of the table is a tagged value:         *)
(* t = "str" (text v), "nan" (missing cell), "num" (a numeric cell) or     *)
(* "ausente" (the row has no such column).  A float is a pair <<n, d>>     *)
(* standing for n / d.                                                     *)
(***************************************************************************)
EXTENDS Naturals, Integers, Sequences, FiniteSets, TLC

VARIABLES
  texto,         \* the value handed to limpiar_texto
  limpiezas,     \* what limpiar_texto returned, then what it returned for that
  row,           \* the record handed to clasificar_consulta
  clasif,        \* <<>> before the call, <<result>> after it
  archivo,       \* the uploaded table: [columnas, filas]
  estado,        \* position of main(): "inicio", "cargado", "sin_datos", "detenido", "error"
  mensaje,       \* what st.error showed: [tipo, columnas]
  pasos,         \* the pipeline steps the load executed, in order
  df_original,   \* <<>> or <<rows>>: first element of the load's return value
  df_limpio,     \* <<>> or <<rows>>: second element of the load's return value
  consulta,      \* the last call of a query function on its own: [op, ...arguments]
  salida,        \* the value that call returned
  pagina         \* <<>> or <<what the tabs of the last run of main() show>>

vars == <<texto, limpiezas, row, clasif, archivo, estado, mensaje, pasos,
          df_original, df_limpio, consulta, salida, pagina>>

(***************************************************************************)
(* Bounds                                                                  *)
(***************************************************************************)
\* rows of an uploaded table
MaxFilas == 3
\* largest minimum-turns value asked of the filter
MaxTurnosMin == 3
\* largest n asked of the top questions, besides the dashboard's own
MaxN == 2
\* the n of the dashboard's "Top 15 Preguntas Frecuentes"
N_TOP == 15

(***************************************************************************)
(* Characters                                                              *)
(***************************************************************************)
Minusculas ==
  <<"a", "b", "c", "d", "e", "f", "g", "h", "i", "j", "k", "l", "m", "n", "o",
    "p", "q", "r", "s", "t", "u", "v", "w", "x", "y", "z",
    "á", "é", "í", "ó", "ú", "ñ", "ü">>

Mayusculas ==
  <<"A", "B", "C", "D", "E", "F", "G", "H", "I", "J", "K", "L", "M", "N", "O",
    "P", "Q", "R", "S", "T", "U", "V", "W", "X", "Y", "Z",
    "Á", "É", "Í", "Ó", "Ú", "Ñ", "Ü">>

Digitos == {"0", "1", "2", "3", "4", "5", "6", "7", "8", "9"}

\* str.strip() and the regex class \s
Espacios == {" ", "\t"}

Rango(s) == {s[i] : i \in 1..Len(s)}

Posicion(c, s) == CHOOSE i \in 1..Len(s) : s[i] = c

\* str.lower() on one character
lower(c) == IF c \in Rango(Mayusculas) THEN Minusculas[Posicion(c, Mayusculas)] ELSE c

\* str.upper() on one character
upper(c) == IF c \in Rango(Minusculas) THEN Mayusculas[Posicion(c, Minusculas)] ELSE c

\* upper-case letters that str.lower() leaves as they are: they have no
\* lower-case form.  "U+2102" stands for the one character of that code
\* point, the double-struck capital C.
SinMinuscula == {"U+2102"}

\* str.isupper() on one character
EsMayuscula(c) == c \in Rango(Mayusculas) \/ c \in SinMinuscula

\* a cased character
EsCased(c) == c \in Rango(Minusculas) \/ EsMayuscula(c)

\* the regex class \w of a str pattern: letters, digits and underscore
EsPalabra(c) == EsCased(c) \/ c \in Digitos \/ c = "_"

\* the explicit characters of the class [^\w\sáéíóúñü]
Acentuadas == {"á", "é", "í", "ó", "ú", "ñ", "ü"}

(***************************************************************************)
(* String helpers                                                          *)
(***************************************************************************)
MinDe(S) == CHOOSE x \in S : \A y \in S : x <= y
MaxDe(S) == CHOOSE x \in S : \A y \in S : x >= y

str_lower(s) == [i \in 1..Len(s) |-> lower(s[i])]

str_strip(s) ==
  LET llenos == {i \in 1..Len(s) : s[i] \notin Espacios}
  IN  IF llenos = {} THEN <<>> ELSE SubSeq(s, MinDe(llenos), MaxDe(llenos))

\* re.sub(r'[^\w\sáéíóúñü]', ' ', texto)
sub_no_palabra(s) ==
  [i \in 1..Len(s) |->
     IF EsPalabra(s[i]) \/ s[i] \in Espacios \/ s[i] \in Acentuadas
     THEN s[i] ELSE " "]

\* mutant of sub_espacios: the pattern written \s, every whitespace character
\* replaced on its own
sub_espacios_uno_a_uno(s) ==
  [i \in 1..Len(s) |-> IF s[i] \in Espacios THEN " " ELSE s[i]]

\* re.sub(r'\s+', ' ', texto)
sub_espacios(s) ==
  LET marcado == [i \in 1..Len(s) |->
                    IF s[i] \in Espacios
                    THEN (IF i > 1 /\ s[i - 1] \in Espacios THEN "" ELSE " ")
                    ELSE s[i]]
  IN  SelectSeq(marcado, LAMBDA c : c # "")

\* str.split(): the maximal runs of non-whitespace, as a set (set(texto.split()))
conjunto_split(s) ==
  {SubSeq(s, i, j) : <<i, j>> \in
     {p \in (1..Len(s)) \X (1..Len(s)) :
        /\ p[1] <= p[2]
        /\ \A k \in p[1]..p[2] : s[k] \notin Espacios
        /\ (p[1] = 1 \/ s[p[1] - 1] \in Espacios)
        /\ (p[2] = Len(s) \/ s[p[2] + 1] \in Espacios)}}

\* str.replace('_', ' ')
replace_guion(s) == [i \in 1..Len(s) |-> IF s[i] = "_" THEN " " ELSE s[i]]

\* str.title(): a cased character is upper-cased when the character before it
\* is not cased and lower-cased when it is
str_title(s) ==
  [i \in 1..Len(s) |->
     IF i > 1 /\ EsCased(s[i - 1]) THEN lower(s[i]) ELSE upper(s[i])]

\* keyword in pregunta
EsSubcadena(k, s) ==
  \E i \in 1..(Len(s) - Len(k) + 1) : SubSeq(s, i, i + Len(k) - 1) = k

(***************************************************************************)
(* Cells and floats                                                        *)
(***************************************************************************)
Str(s)  == [t |-> "str", v |-> s]
NaN     == [t |-> "nan", v |-> <<>>]
Num(s)  == [t |-> "num", v |-> s]
Ausente == [t |-> "ausente", v |-> <<>>]

\* pd.notna(x)
notna(x) == x.t # "nan"

\* mutant of Mayor: the comparison written >= instead of >
Mayor_o_igual(p, q) == p[1] * q[2] >= q[1] * p[2]

\* a / b > c / d for positive denominators
Mayor(p, q) == p[1] * q[2] > q[1] * p[2]

(***************************************************************************)
(* Constants of utils.py                                                   *)
(***************************************************************************)
CATEGORIAS_SUBCATEGORIAS ==
  <<
    \* "Gestión de Pedidos" / "Rastreo y Estatus"
    [categoria |-> <<"G", "e", "s", "t", "i", "ó", "n", " ", "d", "e", " ", "P", "e", "d", "i", "d", "o", "s">>,
     subcategoria |-> <<"R", "a", "s", "t", "r", "e", "o", " ", "y", " ", "E", "s", "t", "a", "t", "u", "s">>,
     keywords |-> <<
       <<"p", "e", "d", "i", "d", "o">>,
       <<"r", "a", "s", "t", "r", "e", "a", "r">>,
       <<"e", "s", "t", "a", "t", "u", "s">>,
       <<"g", "u", "i", "a">>,
       <<"d", "o", "n", "d", "e", " ", "v", "i", "e", "n", "e">>,
       <<"l", "l", "e", "g", "a", "d", "o">>,
       <<"s", "e", "g", "u", "i", "m", "i", "e", "n", "t", "o">>,
       <<"e", "n", "v", "i", "o">>,
       <<"p", "a", "q", "u", "e", "t", "e">> >>],
    \* "Gestión de Pedidos" / "Modificación y Cancelación"
    [categoria |-> <<"G", "e", "s", "t", "i", "ó", "n", " ", "d", "e", " ", "P", "e", "d", "i", "d", "o", "s">>,
     subcategoria |-> <<"M", "o", "d", "i", "f", "i", "c", "a", "c", "i", "ó", "n", " ", "y", " ", "C", "a", "n", "c", "e", "l", "a", "c", "i", "ó", "n">>,
     keywords |-> <<
       <<"c", "a", "m", "b", "i", "a", "r">>,
       <<"m", "o", "d", "i", "f", "i", "c", "a", "r">>,
       <<"c", "a", "n", "c", "e", "l", "a", "r">>,
       <<"d", "i", "r", "e", "c", "c", "i", "ó", "n">>,
       <<"d", "e", "v", "o", "l", "v", "e", "r">>,
       <<"r", "e", "e", "m", "b", "o", "l", "s", "o">> >>],
    \* "Gestión de Pedidos" / "Problemas con Pedido"
    [categoria |-> <<"G", "e", "s", "t", "i", "ó", "n", " ", "d", "e", " ", "P", "e", "d", "i", "d", "o", "s">>,
     subcategoria |-> <<"P", "r", "o", "b", "l", "e", "m", "a", "s", " ", "c", "o", "n", " ", "P", "e", "d", "i", "d", "o">>,
     keywords |-> <<
       <<"i", "n", "c", "o", "m", "p", "l", "e", "t", "o">>,
       <<"d", "a", "ñ", "a", "d", "o">>,
       <<"e", "q", "u", "i", "v", "o", "c", "a", "d", "o">>,
       <<"p", "r", "o", "b", "l", "e", "m", "a">>,
       <<"f", "a", "l", "t", "a">>,
       <<"e", "r", "r", "o", "r">>,
       <<"m", "a", "l", " ", "e", "s", "t", "a", "d", "o">> >>],
    \* "Purificadores - Info General" / "Comparativa de Modelos"
    [categoria |-> <<"P", "u", "r", "i", "f", "i", "c", "a", "d", "o", "r", "e", "s", " ", "-", " ", "I", "n", "f", "o", " ", "G", "e", "n", "e", "r", "a", "l">>,
     subcategoria |-> <<"C", "o", "m", "p", "a", "r", "a", "t", "i", "v", "a", " ", "d", "e", " ", "M", "o", "d", "e", "l", "o", "s">>,
     keywords |-> <<
       <<"d", "i", "f", "e", "r", "e", "n", "c", "i", "a">>,
       <<"c", "o", "m", "p", "a", "r", "a", "r">>,
       <<"c", "u", "a", "l", " ", "e", "l", "e", "g", "i", "r">>,
       <<"m", "o", "d", "e", "l", "o", "s">>,
       <<"t", "i", "p", "o", "s">>,
       <<"m", "e", "j", "o", "r">>,
       <<"v", "e", "r", "s", "u", "s">>,
       <<"v", "s">> >>],
    \* "Purificadores - Info General" / "Beneficios y Características"
    [categoria |-> <<"P", "u", "r", "i", "f", "i", "c", "a", "d", "o", "r", "e", "s", " ", "-", " ", "I", "n", "f", "o", " ", "G", "e", "n", "e", "r", "a", "l">>,
     subcategoria |-> <<"B", "e", "n", "e", "f", "i", "c", "i", "o", "s", " ", "y", " ", "C", "a", "r", "a", "c", "t", "e", "r", "í", "s", "t", "i", "c", "a", "s">>,
     keywords |-> <<
       <<"b", "e", "n", "e", "f", "i", "c", "i", "o", "s">>,
       <<"v", "e", "n", "t", "a", "j", "a", "s">>,
       <<"p", "o", "r", " ", "q", "u", "e", " ", "c", "o", "m", "p", "r", "a", "r">>,
       <<"p", "a", "r", "a", " ", "q", "u", "e", " ", "s", "i", "r", "v", "e">>,
       <<"a", "h", "o", "r", "r", "o">>,
       <<"s", "a", "l", "u", "d">>,
       <<"c", "a", "r", "a", "c", "t", "e", "r", "i", "s", "t", "i", "c", "a", "s">>,
       <<"e", "s", "p", "e", "c", "i", "f", "i", "c", "a", "c", "i", "o", "n", "e", "s">> >>],
    \* "Purificador ALX1" / "Funcionalidad ALX1"
    [categoria |-> <<"P", "u", "r", "i", "f", "i", "c", "a", "d", "o", "r", " ", "A", "L", "X", "1">>,
     subcategoria |-> <<"F", "u", "n", "c", "i", "o", "n", "a", "l", "i", "d", "a", "d", " ", "A", "L", "X", "1">>,
     keywords |-> <<
       <<"a", "l", "x", "1">>,
       <<"a", "l", "t", "a", " ", "d", "e", "m", "a", "n", "d", "a">>,
       <<"c", "o", "n", "e", "c", "t", "a">>,
       <<"d", "i", "r", "e", "c", "t", "o">>,
       <<"p", "r", "e", "s", "i", "o", "n">>,
       <<"f", "l", "u", "j", "o", " ", "c", "o", "n", "t", "i", "n", "u", "o">> >>],
    \* "Purificador ALX1" / "App y Monitoreo"
    [categoria |-> <<"P", "u", "r", "i", "f", "i", "c", "a", "d", "o", "r", " ", "A", "L", "X", "1">>,
     subcategoria |-> <<"A", "p", "p", " ", "y", " ", "M", "o", "n", "i", "t", "o", "r", "e", "o">>,
     keywords |-> <<
       <<"a", "p", "p">>,
       <<"a", "p", "l", "i", "c", "a", "c", "i", "o", "n">>,
       <<"m", "o", "n", "i", "t", "o", "r", "e", "a", "r">>,
       <<"c", "a", "l", "i", "d", "a", "d">>,
       <<"c", "o", "n", "s", "u", "m", "o">>,
       <<"c", "a", "r", "t", "u", "c", "h", "o", "s">>,
       <<"n", "o", "t", "i", "f", "i", "c", "a", "c", "i", "o", "n", "e", "s">> >>],
    \* "Purificador ALX1" / "Instalación ALX1"
    [categoria |-> <<"P", "u", "r", "i", "f", "i", "c", "a", "d", "o", "r", " ", "A", "L", "X", "1">>,
     subcategoria |-> <<"I", "n", "s", "t", "a", "l", "a", "c", "i", "ó", "n", " ", "A", "L", "X", "1">>,
     keywords |-> <<
       <<"i", "n", "s", "t", "a", "l", "a", "r", " ", "a", "l", "x", "1">>,
       <<"c", "o", "n", "e", "x", "i", "o", "n">>,
       <<"t", "o", "m", "a", " ", "d", "e", " ", "a", "g", "u", "a">>,
       <<"b", "a", "j", "o", " ", "t", "a", "r", "j", "a">>,
       <<"l", "l", "a", "v", "e", " ", "d", "e", " ", "p", "a", "s", "o">> >>],
    \* "Purificador ALX2" / "Funcionalidad ALX2"
    [categoria |-> <<"P", "u", "r", "i", "f", "i", "c", "a", "d", "o", "r", " ", "A", "L", "X", "2">>,
     subcategoria |-> <<"F", "u", "n", "c", "i", "o", "n", "a", "l", "i", "d", "a", "d", " ", "A", "L", "X", "2">>,
     keywords |-> <<
       <<"a", "l", "x", "2">>,
       <<"p", "o", "r", "t", "a", "t", "i", "l">>,
       <<"c", "o", "n", "t", "e", "n", "e", "d", "o", "r">>,
       <<"l", "l", "e", "n", "a", "r">>,
       <<"6", " ", "l", "i", "t", "r", "o", "s">>,
       <<"t", "a", "n", "q", "u", "e">>,
       <<"d", "e", "p", "o", "s", "i", "t", "o">> >>],
    \* "Purificador ALX2" / "Agua Alcalina"
    [categoria |-> <<"P", "u", "r", "i", "f", "i", "c", "a", "d", "o", "r", " ", "A", "L", "X", "2">>,
     subcategoria |-> <<"A", "g", "u", "a", " ", "A", "l", "c", "a", "l", "i", "n", "a">>,
     keywords |-> <<
       <<"a", "l", "c", "a", "l", "i", "n", "a">>,
       <<"p", "h">>,
       <<"a", "l", "c", "a", "l", "i", "n", "i", "d", "a", "d">>,
       <<"m", "i", "n", "e", "r", "a", "l", "e", "s">>,
       <<"i", "o", "n", "i", "z", "a", "d", "a">> >>],
    \* "Purificador ALX2" / "Control de Temperatura"
    [categoria |-> <<"P", "u", "r", "i", "f", "i", "c", "a", "d", "o", "r", " ", "A", "L", "X", "2">>,
     subcategoria |-> <<"C", "o", "n", "t", "r", "o", "l", " ", "d", "e", " ", "T", "e", "m", "p", "e", "r", "a", "t", "u", "r", "a">>,
     keywords |-> <<
       <<"t", "e", "m", "p", "e", "r", "a", "t", "u", "r", "a">>,
       <<"f", "r", "i", "o">>,
       <<"c", "a", "l", "i", "e", "n", "t", "e">>,
       <<"4", " ", "g", "r", "a", "d", "o", "s">>,
       <<"1", "0", "0", " ", "g", "r", "a", "d", "o", "s">> >>],
    \* "Tecnología y Filtración" / "Osmosis Inversa"
    [categoria |-> <<"T", "e", "c", "n", "o", "l", "o", "g", "í", "a", " ", "y", " ", "F", "i", "l", "t", "r", "a", "c", "i", "ó", "n">>,
     subcategoria |-> <<"O", "s", "m", "o", "s", "i", "s", " ", "I", "n", "v", "e", "r", "s", "a">>,
     keywords |-> <<
       <<"o", "s", "m", "o", "s", "i", "s">>,
       <<"i", "n", "v", "e", "r", "s", "a">>,
       <<"r", "o">>,
       <<"m", "e", "m", "b", "r", "a", "n", "a">>,
       <<"s", "a", "l", "e", "s">>,
       <<"m", "i", "n", "e", "r", "a", "l", "e", "s", " ", "d", "i", "s", "u", "e", "l", "t", "o", "s">> >>],
    \* "Tecnología y Filtración" / "Cartuchos y Filtros"
    [categoria |-> <<"T", "e", "c", "n", "o", "l", "o", "g", "í", "a", " ", "y", " ", "F", "i", "l", "t", "r", "a", "c", "i", "ó", "n">>,
     subcategoria |-> <<"C", "a", "r", "t", "u", "c", "h", "o", "s", " ", "y", " ", "F", "i", "l", "t", "r", "o", "s">>,
     keywords |-> <<
       <<"c", "a", "r", "t", "u", "c", "h", "o">>,
       <<"f", "i", "l", "t", "r", "o">>,
       <<"s", "e", "d", "i", "m", "e", "n", "t", "o", "s">>,
       <<"c", "a", "r", "b", "o", "n">>,
       <<"v", "i", "d", "a", " ", "u", "t", "i", "l">>,
       <<"c", "a", "m", "b", "i", "o">>,
       <<"r", "e", "p", "u", "e", "s", "t", "o">> >>],
    \* "Tecnología y Filtración" / "Calidad del Agua"
    [categoria |-> <<"T", "e", "c", "n", "o", "l", "o", "g", "í", "a", " ", "y", " ", "F", "i", "l", "t", "r", "a", "c", "i", "ó", "n">>,
     subcategoria |-> <<"C", "a", "l", "i", "d", "a", "d", " ", "d", "e", "l", " ", "A", "g", "u", "a">>,
     keywords |-> <<
       <<"p", "u", "r", "i", "f", "i", "c", "a", "d", "a">>,
       <<"s", "e", "g", "u", "r", "a">>,
       <<"i", "m", "p", "u", "r", "e", "z", "a", "s">>,
       <<"b", "a", "c", "t", "e", "r", "i", "a", "s">>,
       <<"c", "l", "o", "r", "o">>,
       <<"s", "a", "b", "o", "r">>,
       <<"o", "l", "o", "r">> >>],
    \* "Mantenimiento y Soporte" / "Cambio de Filtros"
    [categoria |-> <<"M", "a", "n", "t", "e", "n", "i", "m", "i", "e", "n", "t", "o", " ", "y", " ", "S", "o", "p", "o", "r", "t", "e">>,
     subcategoria |-> <<"C", "a", "m", "b", "i", "o", " ", "d", "e", " ", "F", "i", "l", "t", "r", "o", "s">>,
     keywords |-> <<
       <<"c", "a", "m", "b", "i", "a", "r", " ", "f", "i", "l", "t", "r", "o">>,
       <<"r", "e", "e", "m", "p", "l", "a", "z", "a", "r", " ", "c", "a", "r", "t", "u", "c", "h", "o">>,
       <<"m", "a", "n", "t", "e", "n", "i", "m", "i", "e", "n", "t", "o">>,
       <<"c", "u", "a", "n", "d", "o", " ", "c", "a", "m", "b", "i", "a", "r">>,
       <<"f", "r", "e", "c", "u", "e", "n", "c", "i", "a">> >>],
    \* "Mantenimiento y Soporte" / "Instalación General"
    [categoria |-> <<"M", "a", "n", "t", "e", "n", "i", "m", "i", "e", "n", "t", "o", " ", "y", " ", "S", "o", "p", "o", "r", "t", "e">>,
     subcategoria |-> <<"I", "n", "s", "t", "a", "l", "a", "c", "i", "ó", "n", " ", "G", "e", "n", "e", "r", "a", "l">>,
     keywords |-> <<
       <<"i", "n", "s", "t", "a", "l", "a", "r">>,
       <<"i", "n", "s", "t", "a", "l", "a", "c", "i", "o", "n">>,
       <<"b", "a", "j", "o", " ", "f", "r", "e", "g", "a", "d", "e", "r", "o">>,
       <<"c", "o", "n", "e", "x", "i", "o", "n">>,
       <<"p", "l", "o", "m", "e", "r", "o">>,
       <<"t", "u", "t", "o", "r", "i", "a", "l">> >>],
    \* "Mantenimiento y Soporte" / "Garantías y Soporte"
    [categoria |-> <<"M", "a", "n", "t", "e", "n", "i", "m", "i", "e", "n", "t", "o", " ", "y", " ", "S", "o", "p", "o", "r", "t", "e">>,
     subcategoria |-> <<"G", "a", "r", "a", "n", "t", "í", "a", "s", " ", "y", " ", "S", "o", "p", "o", "r", "t", "e">>,
     keywords |-> <<
       <<"g", "a", "r", "a", "n", "t", "i", "a">>,
       <<"d", "e", "v", "o", "l", "u", "c", "i", "o", "n">>,
       <<"r", "e", "p", "a", "r", "a", "c", "i", "o", "n">>,
       <<"s", "o", "p", "o", "r", "t", "e">>,
       <<"s", "e", "r", "v", "i", "c", "i", "o", " ", "t", "e", "c", "n", "i", "c", "o">>,
       <<"f", "a", "l", "l", "a">> >>],
    \* "Interacciones Generales" / "Saludos y Cortesía"
    [categoria |-> <<"I", "n", "t", "e", "r", "a", "c", "c", "i", "o", "n", "e", "s", " ", "G", "e", "n", "e", "r", "a", "l", "e", "s">>,
     subcategoria |-> <<"S", "a", "l", "u", "d", "o", "s", " ", "y", " ", "C", "o", "r", "t", "e", "s", "í", "a">>,
     keywords |-> <<
       <<"h", "o", "l", "a">>,
       <<"b", "u", "e", "n", "o", "s", " ", "d", "i", "a", "s">>,
       <<"b", "u", "e", "n", "a", "s", " ", "t", "a", "r", "d", "e", "s">>,
       <<"g", "r", "a", "c", "i", "a", "s">>,
       <<"a", "d", "i", "o", "s">>,
       <<"b", "u", "e", "n", "a", "s", " ", "n", "o", "c", "h", "e", "s">> >>],
    \* "Interacciones Generales" / "Consultas de Cuenta"
    [categoria |-> <<"I", "n", "t", "e", "r", "a", "c", "c", "i", "o", "n", "e", "s", " ", "G", "e", "n", "e", "r", "a", "l", "e", "s">>,
     subcategoria |-> <<"C", "o", "n", "s", "u", "l", "t", "a", "s", " ", "d", "e", " ", "C", "u", "e", "n", "t", "a">>,
     keywords |-> <<
       <<"m", "i", " ", "c", "u", "e", "n", "t", "a">>,
       <<"c", "o", "n", "t", "r", "a", "s", "e", "ñ", "a">>,
       <<"d", "a", "t", "o", "s", " ", "p", "e", "r", "s", "o", "n", "a", "l", "e", "s">>,
       <<"p", "e", "r", "f", "i", "l">>,
       <<"u", "s", "u", "a", "r", "i", "o">>,
       <<"r", "e", "g", "i", "s", "t", "r", "o">> >>],
    \* "Sin Clasificar" / "Otros"
    [categoria |-> <<"S", "i", "n", " ", "C", "l", "a", "s", "i", "f", "i", "c", "a", "r">>,
     subcategoria |-> <<"O", "t", "r", "o", "s">>,
     keywords |-> <<
       <<"o", "t", "r", "o", "s">>,
       <<"m", "i", "s", "c", "e", "l", "a", "n", "e", "o", "s">>,
       <<"s", "i", "n", " ", "c", "a", "t", "e", "g", "o", "r", "i", "a">> >>]
  >>

SALUDOS_BASICOS ==
  { <<"h", "o", "l", "a">>,  \* "hola"
    <<"b", "u", "e", "n", "o", "s", " ", "d", "i", "a", "s">>,  \* "buenos dias"
    <<"b", "u", "e", "n", "a", "s", " ", "t", "a", "r", "d", "e", "s">>,  \* "buenas tardes"
    <<"b", "u", "e", "n", "a", "s", " ", "n", "o", "c", "h", "e", "s">>,  \* "buenas noches"
    <<"g", "r", "a", "c", "i", "a", "s">>,  \* "gracias"
    <<"a", "d", "i", "o", "s">>,  \* "adios"
    <<"s", "i">>,  \* "si"
    <<"n", "o">>,  \* "no"
    <<"o", "k">>,  \* "ok"
    <<"a", "j", "a">>,  \* "aja"
    <<"b", "i", "e", "n">>,  \* "bien"
    <<"p", "e", "r", "f", "e", "c", "t", "o">>,  \* "perfecto"
    <<"e", "x", "c", "e", "l", "e", "n", "t", "e">>,  \* "excelente"
    <<"d", "e", " ", "a", "c", "u", "e", "r", "d", "o">>,  \* "de acuerdo"
    <<"e", "n", "t", "e", "n", "d", "i", "d", "o">>,  \* "entendido"
    <<"c", "l", "a", "r", "o">>,  \* "claro"
    <<"p", "o", "r", " ", "f", "a", "v", "o", "r">>,  \* "por favor"
    <<"d", "i", "s", "c", "u", "l", "p", "a">> }  \* "disculpa"

PALABRAS_RUIDO ==
  { <<>>,  \* ""
    <<"s", "i">>,  \* "si"
    <<"n", "o">>,  \* "no"
    <<"o", "k">>,  \* "ok"
    <<"a">>,  \* "a"
    <<"e">>,  \* "e"
    <<"o">>,  \* "o"
    <<"d", "e">>,  \* "de"
    <<"l", "a">>,  \* "la"
    <<"e", "l">>,  \* "el"
    <<"m", "i">>,  \* "mi"
    <<"q", "u", "e">>,  \* "que"
    <<"e", "s">>,  \* "es"
    <<"u", "n">>,  \* "un"
    <<"u", "n", "a">>,  \* "una"
    <<"l", "o", "s">>,  \* "los"
    <<"l", "a", "s">>,  \* "las"
    <<"y">>,  \* "y"
    <<"e", "n">>,  \* "en"
    <<"c", "o", "n">>,  \* "con"
    <<"p", "a", "r", "a">>,  \* "para"
    <<"p", "o", "r">> }  \* "por"

\* the values clasificar_consulta does not accept as a native intent
INTENTS_CENTINELA ==
  { <<"U", "N", "S", "P", "E", "C", "I", "F", "I", "E", "D">>,
    <<>>,
    <<"D", "e", "f", "a", "u", "l", "t", " ", "W", "e", "l", "c", "o", "m", "e", " ", "I", "n", "t", "e", "n", "t">> }

POR_INTENT      == <<"P", "o", "r", " ", "I", "n", "t", "e", "n", "t">>
SIN_CLASIFICAR  == <<"S", "i", "n", " ", "C", "l", "a", "s", "i", "f", "i", "c", "a", "r">>
OTROS           == <<"O", "t", "r", "o", "s">>
TODAS           == <<"T", "o", "d", "a", "s">>
INTERACCIONES_GENERALES == <<"I", "n", "t", "e", "r", "a", "c", "c", "i", "o", "n", "e", "s", " ", "G", "e", "n", "e", "r", "a", "l", "e", "s">>

(***************************************************************************)
(* utils.py: limpiar_texto, es_saludo_basico                               *)
(***************************************************************************)
limpiar_texto(valor) ==
  IF valor.t # "str" THEN <<>>
  ELSE LET t1 == str_strip(str_lower(valor.v))
           t2 == sub_no_palabra(t1)
       IN  str_strip(sub_espacios(t2))

es_saludo_basico(valor) ==
  LET texto_limpio == limpiar_texto(valor)
      palabras     == conjunto_split(texto_limpio)
  IN  (palabras \cap SALUDOS_BASICOS) # {} /\ Cardinality(palabras) <= 3

(***************************************************************************)
(* utils.py: clasificar_consulta                                           *)
(* A result is [exc, categoria, subcategoria, confidence]; exc is "" when  *)
(* the call returned and the name of the exception when it raised.         *)
(***************************************************************************)
Devuelve(categoria, subcategoria, confidence) ==
  [exc |-> "", categoria |-> categoria, subcategoria |-> subcategoria,
   confidence |-> confidence]

Lanza(exc) ==
  [exc |-> exc, categoria |-> <<>>, subcategoria |-> <<>>, confidence |-> <<0, 1>>]

\* sum(1 for keyword in keywords if keyword in pregunta)
Matches(keywords, pregunta) ==
  Cardinality({k \in 1..Len(keywords) : EsSubcadena(keywords[k], pregunta)})

\* mutant of BucleTaxonomia: mejor_score is never updated, so the last entry
\* with a match replaces the earlier ones
RECURSIVE BucleTaxonomia_sin_score(_, _, _, _)
BucleTaxonomia_sin_score(pregunta, i, mejor_match, mejor_score) ==
  IF i > Len(CATEGORIAS_SUBCATEGORIAS) THEN mejor_match
  ELSE LET e       == CATEGORIAS_SUBCATEGORIAS[i]
           matches == Matches(e.keywords, pregunta)
           score   == <<matches, Len(e.keywords)>>
       IN  IF matches > 0 /\ Mayor(score, mejor_score)
           THEN BucleTaxonomia_sin_score(pregunta, i + 1,
                  <<Devuelve(e.categoria, e.subcategoria, score)>>, mejor_score)
           ELSE BucleTaxonomia_sin_score(pregunta, i + 1, mejor_match, mejor_score)

\* mutant of BucleTaxonomia: the score is the number of matches, not divided
\* by the length of the keyword list
RECURSIVE BucleTaxonomia_sin_dividir(_, _, _, _)
BucleTaxonomia_sin_dividir(pregunta, i, mejor_match, mejor_score) ==
  IF i > Len(CATEGORIAS_SUBCATEGORIAS) THEN mejor_match
  ELSE LET e       == CATEGORIAS_SUBCATEGORIAS[i]
           matches == Matches(e.keywords, pregunta)
           score   == <<matches, 1>>
       IN  IF matches > 0 /\ Mayor(score, mejor_score)
           THEN BucleTaxonomia_sin_dividir(pregunta, i + 1,
                  <<Devuelve(e.categoria, e.subcategoria, score)>>, score)
           ELSE BucleTaxonomia_sin_dividir(pregunta, i + 1, mejor_match, mejor_score)

\* the two nested for-loops over CATEGORIAS_SUBCATEGORIAS.items(), from entry i
\* on; mejor_match is <<>> for None
RECURSIVE BucleTaxonomia(_, _, _, _)
BucleTaxonomia(pregunta, i, mejor_match, mejor_score) ==
  IF i > Len(CATEGORIAS_SUBCATEGORIAS) THEN mejor_match
  ELSE LET e       == CATEGORIAS_SUBCATEGORIAS[i]
           matches == Matches(e.keywords, pregunta)
           score   == <<matches, Len(e.keywords)>>
       IN  IF matches > 0 /\ Mayor(score, mejor_score)
           THEN BucleTaxonomia(pregunta, i + 1,
                               <<Devuelve(e.categoria, e.subcategoria, score)>>, score)
           ELSE BucleTaxonomia(pregunta, i + 1, mejor_match, mejor_score)

\* the condition of the `if` that gives the native intent priority
TieneIntentNativo(r) ==
  /\ r.intent_name.t # "ausente"
  /\ notna(r.intent_name)
  /\ ~(r.intent_name.t = "str" /\ r.intent_name.v \in INTENTS_CENTINELA)

\* row.get('pregunta_limpia', limpiar_texto(row['user_utterances'])): the
\* default is evaluated before the call, so a row without user_utterances
\* raises KeyError whether or not it has pregunta_limpia.  The value is the
\* cell found, which need not be a text.
PreguntaDe(r) ==
  IF r.user_utterances.t = "ausente"
  THEN [exc |-> "KeyError", v |-> NaN]
  ELSE [exc |-> "",
        v   |-> IF r.pregunta_limpia.t # "ausente" THEN r.pregunta_limpia
                ELSE Str(limpiar_texto(r.user_utterances))]

\* lines 119-131: pregunta, then the loop over the taxonomy (`keyword in
\* pregunta` raises TypeError when pregunta is not a text)
PorKeywords(r) ==
  LET pregunta == PreguntaDe(r)
  IN  IF pregunta.exc # "" THEN <<Lanza(pregunta.exc)>>
      ELSE IF pregunta.v.t # "str" THEN <<Lanza("TypeError")>>
      ELSE BucleTaxonomia(pregunta.v.v, 1, <<>>, <<0, 1>>)

clasificar_consulta(r) ==
  IF TieneIntentNativo(r)
  THEN IF r.intent_name.t = "str"
       THEN Devuelve(str_title(replace_guion(r.intent_name.v)), POR_INTENT, <<9, 10>>)
       ELSE Lanza("AttributeError")   \* a number has no .replace
  ELSE LET mejor_match == PorKeywords(r)
       IN  IF mejor_match # <<>> THEN mejor_match[1]
           ELSE Devuelve(SIN_CLASIFICAR, OTROS, <<0, 1>>)

(***************************************************************************)
(* Inputs                                                                  *)
(***************************************************************************)
\* raw utterance cells
UTTERANCES ==
  { Str(<<"n", "e", "c", "e", "s", "i", "t", "o", " ", "c", "a", "m", "b", "i", "a", "r", " ", "e", "l", " ", "f", "i", "l", "t", "r", "o", " ", "d", "e", " ", "m", "i", " ", "A", "L", "X", "1">>),
    Str(<<"H", "o", "l", "a">>),
    Str(<<"h", "o", "l", "a", " ", "b", "u", "e", "n", "o", "s", " ", "d", "i", "a", "s">>),
    Str(<<"q", "u", "i", "e", "r", "o", " ", "r", "a", "s", "t", "r", "e", "a", "r", " ", "m", "i", " ", "p", "e", "d", "i", "d", "o">>),
    Str(<<"¿", "C", "u", "á", "n", "t", "o", " ", "c", "u", "e", "s", "t", "a", "?">>),
    Str(<<"o", "t", "r", "o", "s">>),
    Str(<<"x", "y", "z">>),
    Str(<<"c", "a", "m", "b", "i", "a", "r", " ", "f", "i", "l", "t", "r", "o">>),
    Str(<<"I", "n", "s", "t", "a", "l", "a", "r", " ", "A", "L", "X", "1", ",", " ", "c", "o", "n", "e", "x", "i", "o", "n">>),
    Str(<<"p", "e", "d", "i", "d", "o", " ", "g", "u", "i", "a", " ", "e", "n", "v", "i", "o", " ", "c", "a", "m", "b", "i", "a", "r", " ", "c", "a", "n", "c", "e", "l", "a", "r">>),
    Str(<<"c", "a", "n", "c", "e", "l", "a", "r", " ", "d", "e", "v", "o", "l", "v", "e", "r", " ", "p", "e", "d", "i", "d", "o">>),
    Str(<<" ", " ", "G", "r", "a", "c", "i", "a", "s", "!", "!", " ", " ">>),
    Str(<<"o", "k">>),
    Str(<<"m", "i", "n", "e", "r", "a", "l", "e", "s">>),
    NaN }

\* intent_name cells
INTENTS ==
  { Ausente,
    NaN,
    Str(<<"U", "N", "S", "P", "E", "C", "I", "F", "I", "E", "D">>),
    Str(<<>>),
    Str(<<"D", "e", "f", "a", "u", "l", "t", " ", "W", "e", "l", "c", "o", "m", "e", " ", "I", "n", "t", "e", "n", "t">>),
    Str(<<"t", "r", "a", "c", "k", "_", "o", "r", "d", "e", "r">>),
    Str(<<"A", "L", "X", "1", "_", "i", "n", "f", "o">>),
    Str(<<"u", "n", "s", "p", "e", "c", "i", "f", "i", "e", "d">>),
    Num(<<"7">>) }

\* a row as DataFrame.apply(axis=1) passes it (pregunta_limpia filled in by the
\* load) and as a caller with a bare record passes it (no pregunta_limpia)
Registro(intent, utterance, con_limpia) ==
  [intent_name     |-> intent,
   user_utterances |-> utterance,
   pregunta_limpia |-> IF con_limpia THEN Str(limpiar_texto(utterance)) ELSE Ausente]

\* records a direct caller passes: without the user_utterances key, or with a
\* pregunta_limpia that is not a text
REGISTROS_SUELTOS ==
  { [intent_name |-> i, user_utterances |-> u, pregunta_limpia |-> p] :
      i \in {Ausente, NaN, Str(<<"t", "r", "a", "c", "k", "_", "o", "r", "d", "e", "r">>)},
      u \in {Ausente, Str(<<"p", "e", "d", "i", "d", "o">>)},
      p \in {Ausente, NaN, Num(<<"7">>), Str(<<"p", "e", "d", "i", "d", "o">>)} }

REGISTROS ==
  {Registro(i, u, b) : i \in INTENTS, u \in UTTERANCES, b \in BOOLEAN}
    \cup REGISTROS_SUELTOS

(***************************************************************************)
(* State of the session before any upload                                  *)
(***************************************************************************)
SinArchivo  == [columnas |-> {}, filas |-> <<>>]
SinMensaje  == [tipo |-> "", columnas |-> <<>>]
SinConsulta == [op |-> ""]

\* limpiar_texto has not been called on its own
SinLimpieza ==
  /\ texto = NaN
  /\ limpiezas = <<>>

SesionInicial ==
  /\ archivo = SinArchivo
  /\ estado = "inicio"
  /\ mensaje = SinMensaje
  /\ pasos = <<>>
  /\ df_original = <<>>
  /\ df_limpio = <<>>
  /\ consulta = SinConsulta
  /\ salida = <<>>
  /\ pagina = <<>>

sesion == <<archivo, estado, mensaje, pasos, df_original, df_limpio, consulta, salida,
            pagina>>

(***************************************************************************)
(* Specification of the classifier alone: one record, one call             *)
(***************************************************************************)
InitClasificar ==
  /\ SinLimpieza
  /\ row \in REGISTROS
  /\ clasif = <<>>
  /\ SesionInicial

Clasificar ==
  /\ clasif = <<>>
  /\ clasif' = <<clasificar_consulta(row)>>
  /\ UNCHANGED <<texto, limpiezas, row, sesion>>

NextClasificar == Clasificar

SpecClasificar == InitClasificar /\ [][NextClasificar]_vars

(***************************************************************************)
(* Claims about clasificar_consulta (checked under SpecClasificar)         *)
(***************************************************************************)
\* the claims' own reading of "intent_name is present, non-null and not a sentinel"
IntentValido(r) ==
  /\ r.intent_name.t \notin {"ausente", "nan"}
  /\ ~(/\ r.intent_name.t = "str"
       /\ r.intent_name.v \in
            {<<"U", "N", "S", "P", "E", "C", "I", "F", "I", "E", "D">>,
             <<>>,
             <<"D", "e", "f", "a", "u", "l", "t", " ", "W", "e", "l", "c", "o", "m", "e", " ", "I", "n", "t", "e", "n", "t">>})

\* "no intent override": the column is absent, the cell is null or it is a sentinel
SinIntent(r) ==
  \/ r.intent_name.t \in {"ausente", "nan"}
  \/ /\ r.intent_name.t = "str"
     /\ r.intent_name.v \in {<<"U", "N", "S", "P", "E", "C", "I", "F", "I", "E", "D">>, <<>>, <<"D", "e", "f", "a", "u", "l", "t", " ", "W", "e", "l", "c", "o", "m", "e", " ", "I", "n", "t", "e", "n", "t">>}

\* score of taxonomy entry i on text p, as the pair <<matches, size of the list>>
ScoreDe(i, p) ==
  <<Cardinality({k \in 1..Len(CATEGORIAS_SUBCATEGORIAS[i].keywords) :
                   EsSubcadena(CATEGORIAS_SUBCATEGORIAS[i].keywords[k], p)}),
    Len(CATEGORIAS_SUBCATEGORIAS[i].keywords)>>

Entradas == 1..Len(CATEGORIAS_SUBCATEGORIAS)

\* the title-cased labels of the text intents of INTENTS, written out
TituloEsperado(v) ==
  CASE v = <<"t", "r", "a", "c", "k", "_", "o", "r", "d", "e", "r">> -> <<"T", "r", "a", "c", "k", " ", "O", "r", "d", "e", "r">>
    [] v = <<"A", "L", "X", "1", "_", "i", "n", "f", "o">>   -> <<"A", "l", "x", "1", " ", "I", "n", "f", "o">>
    [] v = <<"u", "n", "s", "p", "e", "c", "i", "f", "i", "e", "d">> -> <<"U", "n", "s", "p", "e", "c", "i", "f", "i", "e", "d">>
    [] OTHER               -> str_title(replace_guion(v))

\* C1 (as claimed): a record whose intent_name is present, non-null and not a
\* sentinel is classified (intent_name with '_' -> ' ' and title-cased,
\* "Por Intent", 0.9), whatever its utterance is and whatever keywords it
\* matches.
C1_IntentGana ==
  (clasif # <<>> /\ IntentValido(row)) =>
     /\ clasif[1].exc = ""
     /\ clasif[1].categoria = str_title(replace_guion(row.intent_name.v))
     /\ clasif[1].categoria = TituloEsperado(row.intent_name.v)
     /\ clasif[1].subcategoria = POR_INTENT
     /\ clasif[1].confidence = <<9, 10>>

\* C2: without an intent override and with at least one keyword matched, the
\* result is the entry of maximal score matches / len(keywords), the first such
\* entry in taxonomy order when several share the maximum.
C2_MejorScore ==
  LET p == PreguntaDe(row).v.v
  IN  (clasif # <<>> /\ SinIntent(row) /\ \E i \in Entradas : ScoreDe(i, p)[1] > 0) =>
        \E i \in Entradas :
          /\ ScoreDe(i, p)[1] > 0
          /\ \A j \in Entradas :
               ScoreDe(j, p)[1] * ScoreDe(i, p)[2] <= ScoreDe(i, p)[1] * ScoreDe(j, p)[2]
          /\ \A j \in 1..(i - 1) :
               ScoreDe(j, p)[1] * ScoreDe(i, p)[2] < ScoreDe(i, p)[1] * ScoreDe(j, p)[2]
          /\ clasif[1].exc = ""
          /\ clasif[1].categoria = CATEGORIAS_SUBCATEGORIAS[i].categoria
          /\ clasif[1].subcategoria = CATEGORIAS_SUBCATEGORIAS[i].subcategoria
          /\ clasif[1].confidence[1] * ScoreDe(i, p)[2]
               = ScoreDe(i, p)[1] * clasif[1].confidence[2]

\* C2 witness: two entries tie at the maximal score (3/9 and 2/6) and the
\* earlier one is returned
C2_Witness ==
  LET p == PreguntaDe(row).v.v
  IN  /\ clasif # <<>>
      /\ SinIntent(row)
      /\ \E i, j \in Entradas :
           /\ i < j
           /\ ScoreDe(i, p)[1] > 0
           /\ ScoreDe(i, p)[2] # ScoreDe(j, p)[2]
           /\ ScoreDe(i, p)[1] * ScoreDe(j, p)[2] = ScoreDe(j, p)[1] * ScoreDe(i, p)[2]
           /\ \A k \in Entradas :
                ScoreDe(k, p)[1] * ScoreDe(i, p)[2] <= ScoreDe(i, p)[1] * ScoreDe(k, p)[2]
           /\ clasif[1].subcategoria = CATEGORIAS_SUBCATEGORIAS[i].subcategoria

\* C3 (as claimed): a record with no intent override and no keyword matched is
\* classified ("Sin Clasificar", "Otros", 0.0), and clasificar_consulta returns
\* a triple for every record, never failing.
C3_FallbackTotal ==
  clasif # <<>> =>
     /\ clasif[1].exc = ""
     /\ (SinIntent(row) /\ \A i \in Entradas : ScoreDe(i, PreguntaDe(row).v.v)[1] = 0)
          => clasif[1] = Devuelve(SIN_CLASIFICAR, OTROS, <<0, 1>>)

\* the scenario record of C10
EsEscenarioALX1(r) ==
  /\ r.user_utterances = Str(<<"n", "e", "c", "e", "s", "i", "t", "o", " ", "c", "a", "m", "b", "i", "a", "r", " ", "e", "l", " ", "f", "i", "l", "t", "r", "o", " ", "d", "e", " ", "m", "i", " ", "A", "L", "X", "1">>)
  /\ SinIntent(r)

\* C10 (as claimed): the scenario utterance is classified "Purificador ALX1" /
\* "Funcionalidad ALX1" or "Mantenimiento y Soporte".
C10_EscenarioOriginal ==
  (clasif # <<>> /\ EsEscenarioALX1(row)) =>
     \/ /\ clasif[1].categoria = <<"P", "u", "r", "i", "f", "i", "c", "a", "d", "o", "r", " ", "A", "L", "X", "1">>
        /\ clasif[1].subcategoria = <<"F", "u", "n", "c", "i", "o", "n", "a", "l", "i", "d", "a", "d", " ", "A", "L", "X", "1">>
     \/ clasif[1].categoria = <<"M", "a", "n", "t", "e", "n", "i", "m", "i", "e", "n", "t", "o", " ", "y", " ", "S", "o", "p", "o", "r", "t", "e">>

\* C10 (amended): the scenario utterance is classified "Gestión de Pedidos" /
\* "Modificación y Cancelación" with confidence 1/6: that entry ("cambiar"),
\* "Funcionalidad ALX1" ("alx1") and "Osmosis Inversa" ("ro" inside "filtro")
\* tie at the maximal ratio 1/6 and it is the first of them in taxonomy order;
\* no keyword of "Mantenimiento y Soporte" occurs in the utterance.
C10_Escenario ==
  (clasif # <<>> /\ EsEscenarioALX1(row)) =>
     /\ clasif[1].categoria = <<"G", "e", "s", "t", "i", "ó", "n", " ", "d", "e", " ", "P", "e", "d", "i", "d", "o", "s">>
     /\ clasif[1].subcategoria = <<"M", "o", "d", "i", "f", "i", "c", "a", "c", "i", "ó", "n", " ", "y", " ", "C", "a", "n", "c", "e", "l", "a", "c", "i", "ó", "n">>
     /\ clasif[1].confidence[1] * 6 = clasif[1].confidence[2]
     /\ \A i \in Entradas :
          LET s == ScoreDe(i, PreguntaDe(row).v.v)
          IN  /\ s[1] * 6 <= s[2]
              /\ CATEGORIAS_SUBCATEGORIAS[i].categoria = <<"M", "a", "n", "t", "e", "n", "i", "m", "i", "e", "n", "t", "o", " ", "y", " ", "S", "o", "p", "o", "r", "t", "e">>
                   => s[1] = 0

\* C10 witness: the scenario record has been classified
C10_Witness ==
  /\ clasif # <<>>
  /\ EsEscenarioALX1(row)
  /\ clasif[1].categoria = <<"G", "e", "s", "t", "i", "ó", "n", " ", "d", "e", " ", "P", "e", "d", "i", "d", "o", "s">>

(***************************************************************************)
(* data_loader.py: cargar_y_procesar_datos                                 *)
(* A table is [columnas, filas]: the set of column names of the CSV and    *)
(* its rows.  A row is [conversation_name, turn_position, user_utterances, *)
(* intent_name]; a column the file lacks is Ausente in every row.          *)
(***************************************************************************)
COLUMNAS_REQUERIDAS == <<"user_utterances", "conversation_name", "turn_position">>

\* mutant of ColumnasFaltantes: once a column is missing, every required column
\* is reported
ColumnasFaltantes_todas(a) ==
  IF \E i \in 1..Len(COLUMNAS_REQUERIDAS) : COLUMNAS_REQUERIDAS[i] \notin a.columnas
  THEN COLUMNAS_REQUERIDAS ELSE <<>>

\* [col for col in columnas_requeridas if col not in df.columns]
ColumnasFaltantes(a) ==
  SelectSeq(COLUMNAS_REQUERIDAS, LAMBDA col : col \notin a.columnas)

\* df['pregunta_limpia'] = df['user_utterances'].apply(limpiar_texto), with the
\* RangeIndex read_csv gives the rows
ConPreguntaLimpia(filas) ==
  [i \in 1..Len(filas) |->
     [indice            |-> i - 1,
      conversation_name |-> filas[i].conversation_name,
      turn_position     |-> filas[i].turn_position,
      user_utterances   |-> filas[i].user_utterances,
      intent_name       |-> filas[i].intent_name,
      pregunta_limpia   |-> limpiar_texto(filas[i].user_utterances)]]

\* mutant of NoEsRuido: basic greetings are dropped with the noise
NoEsRuido_ni_saludo(f) ==
  /\ f.pregunta_limpia \notin PALABRAS_RUIDO
  /\ Len(f.pregunta_limpia) > 2
  /\ ~es_saludo_basico(Str(f.pregunta_limpia))

\* the row mask: ~isin(PALABRAS_RUIDO) & (str.len() > 2)
NoEsRuido(f) ==
  f.pregunta_limpia \notin PALABRAS_RUIDO /\ Len(f.pregunta_limpia) > 2

\* the Series that DataFrame.apply(axis=1) hands to clasificar_consulta
ComoRegistro(f) ==
  [intent_name     |-> f.intent_name,
   user_utterances |-> f.user_utterances,
   pregunta_limpia |-> Str(f.pregunta_limpia)]

\* df_limpio[['categoria', 'subcategoria', 'confidence']] = ...
ConClasificacion(f, c) ==
  [indice            |-> f.indice,
   conversation_name |-> f.conversation_name,
   turn_position     |-> f.turn_position,
   user_utterances   |-> f.user_utterances,
   intent_name       |-> f.intent_name,
   pregunta_limpia   |-> f.pregunta_limpia,
   categoria         |-> c.categoria,
   subcategoria      |-> c.subcategoria,
   confidence        |-> c.confidence]

\* outcomes of the call: st.stop(), an exception, or the returned pair
Detenido(faltantes, pasos_) ==
  [fin |-> "stop", faltantes |-> faltantes, exc |-> "", pasos |-> pasos_,
   df |-> <<>>, df_limpio |-> <<>>]
Excepcion(exc, pasos_) ==
  [fin |-> "raise", faltantes |-> <<>>, exc |-> exc, pasos |-> pasos_,
   df |-> <<>>, df_limpio |-> <<>>]
Retorno(df, limpio, pasos_) ==
  [fin |-> "return", faltantes |-> <<>>, exc |-> "", pasos |-> pasos_,
   df |-> df, df_limpio |-> limpio]

\* lines 46-49: apply(clasificar_consulta, axis=1), .tolist(), the assignment.
\* On a frame with no rows apply returns the empty frame itself, a DataFrame,
\* which has no .tolist(): AttributeError.
Clasificacion(filtrado) ==
  IF filtrado = <<>> THEN <<Lanza("AttributeError")>>
  ELSE [i \in 1..Len(filtrado) |-> clasificar_consulta(ComoRegistro(filtrado[i]))]

cargar_y_procesar_datos(a) ==
  LET faltantes == ColumnasFaltantes(a)
  IN  IF faltantes # <<>>
      THEN Detenido(faltantes, <<"read_csv", "validar">>)
      ELSE
        LET df            == ConPreguntaLimpia(a.filas)
            filtrado      == SelectSeq(df, NoEsRuido)
            clasificacion == Clasificacion(filtrado)
            fallos        == {i \in 1..Len(clasificacion) : clasificacion[i].exc # ""}
        IN  IF fallos # {}
            THEN Excepcion(clasificacion[MinDe(fallos)].exc,
                           <<"read_csv", "validar", "limpiar", "filtrar", "clasificar">>)
            ELSE Retorno(df,
                         [i \in 1..Len(filtrado) |->
                            ConClasificacion(filtrado[i], clasificacion[i])],
                         <<"read_csv", "validar", "limpiar", "filtrar", "clasificar">>)

(***************************************************************************)
(* app.py: main() with an uploaded file                                    *)
(***************************************************************************)
Mensaje(tipo, columnas) == [tipo |-> tipo, columnas |-> columnas]

(***************************************************************************)
(* utils.py: calcular_metricas_conversacion                                *)
(***************************************************************************)
\* conversation identifiers, in the order groupby sorts its keys
CONVERSACIONES == <<"A", "B">>

RECURSIVE Suma(_)
Suma(s) == IF s = <<>> THEN 0 ELSE Head(s) + Suma(Tail(s))

\* the rows of df that belong to conversation c
FilasDe(df, c) == SelectSeq(df, LAMBDA f : f.conversation_name = c)

\* groupby('conversation_name'): the keys present, sorted
Grupos(df) ==
  SelectSeq(CONVERSACIONES, LAMBDA c : \E i \in 1..Len(df) : df[i].conversation_name = c)

\* the aggregation 'max' of turn_position within one group
MaxTurno(df, c) == MaxDe({FilasDe(df, c)[i].turn_position : i \in 1..Len(FilasDe(df, c))})

\* the aggregation 'count' of user_utterances within one group: non-null cells
CuentaUtterances(df, c) ==
  Len(SelectSeq(FilasDe(df, c), LAMBDA f : notna(f.user_utterances)))

\* a sequence of numbers in ascending order
Ordenada(s) ==
  CHOOSE t \in [1..Len(s) -> Rango(s)] :
    /\ \A i \in 1..(Len(s) - 1) : t[i] <= t[i + 1]
    /\ \A x \in Rango(s) :
         Cardinality({i \in 1..Len(s) : t[i] = x}) = Cardinality({i \in 1..Len(s) : s[i] = x})

\* Series.median(), as a fraction
Mediana(s) ==
  LET t == Ordenada(s)
      n == Len(s)
  IN  IF n % 2 = 1 THEN <<t[(n + 1) \div 2], 1>>
      ELSE <<t[n \div 2] + t[n \div 2 + 1], 2>>

MetricasVacias ==
  [vacio |-> TRUE, total_conversaciones |-> 0, total_interacciones |-> 0,
   turnos_promedio |-> <<0, 1>>, turnos_mediana |-> <<0, 1>>,
   escalamientos |-> 0, finalizaciones |-> 0, conversaciones_largas |-> 0,
   conversaciones_df |-> <<>>]

calcular_metricas_conversacion(df) ==
  IF df = <<>> THEN MetricasVacias   \* return {}
  ELSE
    LET grupos == Grupos(df)
        conversaciones ==
          [k \in 1..Len(grupos) |->
             [conversation_name   |-> grupos[k],
              max_turnos          |-> MaxTurno(df, grupos[k]),
              total_interacciones |-> CuentaUtterances(df, grupos[k])]]
        max_turnos == [k \in 1..Len(conversaciones) |-> conversaciones[k].max_turnos]
    IN  [vacio                 |-> FALSE,
         total_conversaciones  |-> Len(conversaciones),
         total_interacciones   |-> Len(df),
         turnos_promedio       |-> <<Suma(max_turnos), Len(max_turnos)>>,
         turnos_mediana        |-> Mediana(max_turnos),
         \* the tables of the model carry no live_agent_handoff / end_session_exit
         escalamientos         |-> 0,
         finalizaciones        |-> 0,
         conversaciones_largas |->
           Cardinality({k \in 1..Len(max_turnos) : max_turnos[k] > 10}),
         conversaciones_df     |-> conversaciones]

(***************************************************************************)
(* data_loader.py: aplicar_filtros                                         *)
(***************************************************************************)
\* mutant of aplicar_filtros: the minimum is asked of the row's own
\* turn_position, not of the conversation's largest
aplicar_filtros_por_fila(df, categoria, subcategoria, turnos_min) ==
  LET f1 == IF categoria # TODAS
            THEN SelectSeq(df, LAMBDA f : f.categoria = categoria) ELSE df
      f2 == IF subcategoria # TODAS
            THEN SelectSeq(f1, LAMBDA f : f.subcategoria = subcategoria) ELSE f1
  IN  SelectSeq(f2, LAMBDA f : f.turn_position >= turnos_min)

aplicar_filtros(df, categoria, subcategoria, turnos_min) ==
  LET f1 == IF categoria # TODAS
            THEN SelectSeq(df, LAMBDA f : f.categoria = categoria) ELSE df
      f2 == IF subcategoria # TODAS
            THEN SelectSeq(f1, LAMBDA f : f.subcategoria = subcategoria) ELSE f1
      \* df.groupby('conversation_name')['turn_position'].max(), on the frame
      \* the function was given
      conversaciones_validas ==
        {c \in Rango(Grupos(df)) : MaxTurno(df, c) >= turnos_min}
  IN  SelectSeq(f2, LAMBDA f : f.conversation_name \in conversaciones_validas)

(***************************************************************************)
(* data_loader.py: obtener_top_preguntas                                   *)
(***************************************************************************)
\* the distinct values of a sequence, in order of first appearance
RECURSIVE Distintos(_)
Distintos(s) ==
  IF s = <<>> THEN <<>>
  ELSE LET r == Distintos(SubSeq(s, 1, Len(s) - 1))
       IN  IF s[Len(s)] \in Rango(r) THEN r ELSE Append(r, s[Len(s)])

Ocurrencias(x, s) == Cardinality({i \in 1..Len(s) : s[i] = x})

\* Series.value_counts(): one entry per distinct value with its count, sorted by
\* descending count.  The sort is Series.sort_values with its default
\* kind='quicksort', which numpy does not guarantee stable: entries of equal
\* count come out in an order the library does not fix.  The operator is the
\* set of the orders the sort may produce.
value_counts(s) ==
  LET claves == Distintos(s)
      k      == Len(claves)
      ordenes == {o \in [1..k -> 1..k] :
                    /\ \A i, j \in 1..k : i # j => o[i] # o[j]
                    /\ \A i \in 1..(k - 1) :
                         Ocurrencias(claves[o[i]], s) >= Ocurrencias(claves[o[i + 1]], s)}
  IN  {[i \in 1..k |-> [Pregunta   |-> claves[o[i]],
                        Frecuencia |-> Ocurrencias(claves[o[i]], s)]] : o \in ordenes}

\* .head(n)
head(s, n) == SubSeq(s, 1, IF n < Len(s) THEN n ELSE Len(s))

\* the rows obtener_top_preguntas counts
FilasFaqs(df, filtrar_saludos) ==
  IF filtrar_saludos
  THEN SelectSeq(SelectSeq(df, LAMBDA f : ~es_saludo_basico(Str(f.pregunta_limpia))),
                 LAMBDA f : f.categoria # INTERACCIONES_GENERALES)
  ELSE df

\* the set of the frames the call may return (<<>> is the empty DataFrame)
obtener_top_preguntas(df, n, filtrar_saludos) ==
  LET df_faqs == FilasFaqs(df, filtrar_saludos)
      textos  == [i \in 1..Len(df_faqs) |-> df_faqs[i].pregunta_limpia]
  IN  {head(vc, n) : vc \in value_counts(textos)}

(***************************************************************************)
(* The objects the query functions work on.  A memory m is the sequence of *)
(* the objects alive, an object is named by its position in m, and every   *)
(* call returns [m |-> the memory it leaves, r |-> the object it returns]. *)
(***************************************************************************)
\* the categories and the subcategories that occur in a classified frame
CategoriasDe(df)    == {df[i].categoria : i \in 1..Len(df)}
SubcategoriasDe(df) == {df[i].subcategoria : i \in 1..Len(df)}

\* str(n) of a non-negative integer
RECURSIVE Decimal(_)
Decimal(n) ==
  LET cifras == <<"0", "1", "2", "3", "4", "5", "6", "7", "8", "9">>
  IN  IF n < 10 THEN <<cifras[n + 1]>>
      ELSE Decimal(n \div 10) \o <<cifras[(n % 10) + 1]>>

\* the text to_csv writes for a cell: nothing for a missing one
Campo(celda) == IF celda.t \in {"nan", "ausente"} THEN <<>> ELSE celda.v

\* df.to_csv(index=False): the header and one line of fields per row, the
\* index left out; the float of the confidence is kept as the float
preparar_datos_descarga(df) ==
  LET con_intent == \E i \in 1..Len(df) : df[i].intent_name.t # "ausente"
  IN  [encabezado |->
         <<"conversation_name", "turn_position", "user_utterances">>
         \o (IF con_intent THEN <<"intent_name">> ELSE <<>>)
         \o <<"pregunta_limpia", "categoria", "subcategoria", "confidence">>,
       lineas |->
         [i \in 1..Len(df) |->
            <<df[i].conversation_name, Decimal(df[i].turn_position),
              Campo(df[i].user_utterances)>>
            \o (IF con_intent THEN <<Campo(df[i].intent_name)>> ELSE <<>>)
            \o <<df[i].pregunta_limpia, df[i].categoria, df[i].subcategoria,
                 df[i].confidence>>]]

\* a statement that builds a new object: df.copy(), df[mask], groupby().agg(),
\* value_counts().head(), pd.DataFrame(...), to_csv().encode(), a dict display
Nuevo(m, valor) == [m |-> Append(m, valor), r |-> Len(m) + 1]

\* the value of the object a call returned
Resultado(ll) == ll.m[ll.r]

\* calcular_metricas_conversacion(df): groupby/agg/reset_index build a new
\* frame (lines 151-154), whose columns line 155 renames in place; the dict
\* returned is new and holds that frame
calcular_metricas_conversacion_en(m, df) ==
  IF m[df] = <<>> THEN Nuevo(m, MetricasVacias)
  ELSE
    LET grupos == Grupos(m[df])
        agregado == Nuevo(m, [k \in 1..Len(grupos) |->
                                [conversation_name |-> grupos[k],
                                 turn_position     |-> MaxTurno(m[df], grupos[k]),
                                 user_utterances   |-> CuentaUtterances(m[df], grupos[k])]])
        conversaciones ==
          [agregado EXCEPT !.m[agregado.r] =
             [k \in 1..Len(grupos) |->
                [conversation_name   |-> agregado.m[agregado.r][k].conversation_name,
                 max_turnos          |-> agregado.m[agregado.r][k].turn_position,
                 total_interacciones |-> agregado.m[agregado.r][k].user_utterances]]]
    IN  Nuevo(conversaciones.m, calcular_metricas_conversacion(conversaciones.m[df]))

\* mutant of aplicar_filtros_en: no copy, the rows filtered out are dropped from
\* the frame given (df.drop(..., inplace=True)) and that frame is returned
aplicar_filtros_en_sitio(m, df, categoria, subcategoria, turnos_min) ==
  [m |-> [m EXCEPT ![df] = aplicar_filtros(m[df], categoria, subcategoria, turnos_min)],
   r |-> df]

\* aplicar_filtros(df, ...): df_filtrado is a copy (line 66); each df_filtrado[...]
\* (lines 69, 72, 77) selects into a new frame to which the name is rebound;
\* df is only read (line 75)
aplicar_filtros_en(m, df, categoria, subcategoria, turnos_min) ==
  LET copia == Nuevo(m, m[df])
      f1 == IF categoria # TODAS
            THEN Nuevo(copia.m, SelectSeq(Resultado(copia), LAMBDA f : f.categoria = categoria))
            ELSE copia
      f2 == IF subcategoria # TODAS
            THEN Nuevo(f1.m, SelectSeq(Resultado(f1), LAMBDA f : f.subcategoria = subcategoria))
            ELSE f1
  IN  Nuevo(f2.m, aplicar_filtros(f2.m[df], categoria, subcategoria, turnos_min))

\* obtener_top_preguntas(df, n, filtrar_saludos): df_faqs is a copy (line 105)
\* rebound to two selections (lines 109, 111); value_counts().head(n) and
\* pd.DataFrame(...) are new, and line 122 sets the index of that new frame.
\* The set of the outcomes, one for each order value_counts may leave.
obtener_top_preguntas_en(m, df, n, filtrar_saludos) ==
  LET copia   == Nuevo(m, m[df])
      df_faqs == IF filtrar_saludos
                 THEN Nuevo(copia.m, FilasFaqs(Resultado(copia), TRUE))
                 ELSE copia
  IN  {LET top_questions == Nuevo(df_faqs.m, t)
       IN  IF Len(t) > 0
           THEN LET df_display == Nuevo(top_questions.m, t)
                IN  [df_display EXCEPT !.m[df_display.r] = t]
           ELSE Nuevo(top_questions.m, <<>>)
       : t \in obtener_top_preguntas(df_faqs.m[df], n, filtrar_saludos)}

\* preparar_datos_descarga(df): to_csv reads df and builds a text, encode its bytes
preparar_datos_descarga_en(m, df) == Nuevo(m, preparar_datos_descarga(m[df]))

(***************************************************************************)
(* Calls of the query functions on the datasets of a load, with any        *)
(* arguments (utils.py, data_loader.py)                                    *)
(***************************************************************************)
\* the two datasets the load returned: objects 1 and 2
Memoria == <<df_original[1], df_limpio[1]>>

\* a call made: the datasets are what the call left of them, salida is the value
\* it returned and consulta tells whether that is an object of its own
Llamada(ll, pedido) ==
  /\ df_original' = <<ll.m[1]>>
  /\ df_limpio' = <<ll.m[2]>>
  /\ salida' = <<Resultado(ll)>>
  /\ consulta' = [pedido EXCEPT !.nuevo = ll.r > Len(Memoria)]
  /\ UNCHANGED <<texto, limpiezas, row, clasif, archivo, estado, mensaje, pasos, pagina>>

\* calcular_metricas_conversacion(df_original)
Metricas ==
  /\ estado = "cargado"
  /\ Llamada(calcular_metricas_conversacion_en(Memoria, 1),
             [op |-> "metricas", nuevo |-> FALSE])

\* aplicar_filtros(df_limpio, categoria, subcategoria, turnos_min), the
\* category and the subcategory being 'Todas' or any that occurs in the frame
Filtrar ==
  /\ estado = "cargado"
  /\ \E categoria \in {TODAS} \cup CategoriasDe(df_limpio[1]),
        subcategoria \in {TODAS} \cup SubcategoriasDe(df_limpio[1]),
        turnos_min \in 1..MaxTurnosMin :
       Llamada(aplicar_filtros_en(Memoria, 2, categoria, subcategoria, turnos_min),
               [op |-> "filtrar", categoria |-> categoria,
                subcategoria |-> subcategoria, turnos_min |-> turnos_min,
                nuevo |-> FALSE])

\* obtener_top_preguntas(df_limpio, n, filtrar_saludos)
TopPreguntas ==
  /\ estado = "cargado"
  /\ \E n \in (0..MaxN) \cup {N_TOP}, filtrar_saludos \in BOOLEAN :
       \E ll \in obtener_top_preguntas_en(Memoria, 2, n, filtrar_saludos) :
         Llamada(ll, [op |-> "top", n |-> n, filtrar_saludos |-> filtrar_saludos,
                      nuevo |-> FALSE])

\* preparar_datos_descarga(df_limpio)
Descargar ==
  /\ estado = "cargado"
  /\ Llamada(preparar_datos_descarga_en(Memoria, 2),
             [op |-> "descarga", nuevo |-> FALSE])

(***************************************************************************)
(* app.py: one run of main() on the uploaded file                          *)
(***************************************************************************)
\* lines 182-183: ['Todas'] + sorted(df['categoria'].unique())
OpcionesCategoria(df) == {TODAS} \cup CategoriasDe(df)

\* lines 186-192: the subcategories of the rows of the selected category, or
\* 'Todas' alone when no category is selected
OpcionesSubcategoria(df, categoria) ==
  IF categoria # TODAS
  THEN {TODAS} \cup {df[i].subcategoria : i \in {j \in 1..Len(df) : df[j].categoria = categoria}}
  ELSE {TODAS}

\* int(df['turn_position'].max())
MaxTurnoDe(df) == MaxDe({df[i].turn_position : i \in 1..Len(df)})

\* lines 195-199: the values of st.slider(label, 1, max, 1).  The slider needs
\* min_value < max_value: with max <= 1 it raises StreamlitAPIException and
\* offers no value
OpcionesTurnos(df) == IF MaxTurnoDe(df) > 1 THEN 1..MaxTurnoDe(df) ELSE {}

\* render_exploracion_datos(df) with the values the widgets hold: the filter
\* (line 203) and, when rows are left, the download (line 246); the object
\* returned is what the tab shows
render_exploracion_datos(m, df, categoria, subcategoria, turnos_min) ==
  LET df_filtrado == aplicar_filtros_en(m, df, categoria, subcategoria, turnos_min)
      csv_data    == IF Resultado(df_filtrado) # <<>>
                     THEN preparar_datos_descarga_en(df_filtrado.m, df_filtrado.r)
                     ELSE df_filtrado
  IN  Nuevo(csv_data.m,
            [categoria    |-> categoria,
             subcategoria |-> subcategoria,
             turnos_min   |-> turnos_min,
             df_filtrado  |-> Resultado(df_filtrado),
             descarga     |-> IF Resultado(df_filtrado) = <<>> THEN <<>>
                              ELSE <<Resultado(csv_data)>>])

\* what the tabs of a run show: the metrics (line 333), the top questions
\* (line 147) and the exploration, <<>> when its slider raised
Pagina(metricas, top_preguntas, exploracion) ==
  [metricas |-> metricas, top_preguntas |-> top_preguntas, exploracion |-> exploracion]

\* main(), lines 318-353, for an uploaded file: the load (its st.cache_data
\* decorator keeps results of earlier calls; a run is modelled with the call
\* executed); then, when it returned rows, the metrics, the top questions and
\* the exploration with the values its widgets hold in this run
main ==
  /\ estado = "inicio"
  /\ archivo # SinArchivo
  /\ \E r \in {cargar_y_procesar_datos(archivo)} :
         /\ pasos' = r.pasos
         /\ CASE r.fin = "stop" ->
                   \* st.error(...); st.stop(): the script run ends
                   /\ estado' = "detenido"
                   /\ mensaje' = Mensaje("Columnas faltantes", r.faltantes)
                   /\ UNCHANGED <<df_original, df_limpio, pagina>>
              [] r.fin = "raise" ->
                   \* except Exception as e: st.error("Error al procesar ...")
                   /\ estado' = "error"
                   /\ mensaje' = Mensaje("Error al procesar el archivo", <<>>)
                   /\ UNCHANGED <<df_original, df_limpio, pagina>>
              [] r.fin = "return" /\ r.df_limpio = <<>> ->
                   \* if df_limpio.empty: st.error(...); return
                   /\ estado' = "sin_datos"
                   /\ mensaje' = Mensaje("El archivo no contiene datos válidos para analizar.", <<>>)
                   /\ df_original' = <<r.df>>
                   /\ df_limpio' = <<r.df_limpio>>
                   /\ UNCHANGED pagina
              [] OTHER ->
                   \* the datasets are objects 1 and 2 of the run
                   \E metricas \in {calcular_metricas_conversacion_en(<<r.df, r.df_limpio>>, 1)} :
                   \E top \in obtener_top_preguntas_en(metricas.m, 2, N_TOP, TRUE) :
                       IF OpcionesTurnos(top.m[2]) = {}
                       THEN \* the slider raises inside the try: except Exception
                            /\ estado' = "error"
                            /\ mensaje' = Mensaje("Error al procesar el archivo", <<>>)
                            /\ df_original' = <<top.m[1]>>
                            /\ df_limpio' = <<top.m[2]>>
                            /\ pagina' = <<Pagina(Resultado(metricas), Resultado(top), <<>>)>>
                       ELSE /\ estado' = "cargado"
                            /\ mensaje' = Mensaje("Archivo procesado", <<>>)
                            /\ \E categoria \in OpcionesCategoria(top.m[2]) :
                               \E subcategoria \in OpcionesSubcategoria(top.m[2], categoria) :
                               \E turnos_min \in OpcionesTurnos(top.m[2]) :
                               \E exploracion \in {render_exploracion_datos(
                                                      top.m, 2, categoria, subcategoria,
                                                      turnos_min)} :
                                     /\ df_original' = <<exploracion.m[1]>>
                                     /\ df_limpio' = <<exploracion.m[2]>>
                                     /\ pagina' = <<Pagina(Resultado(metricas), Resultado(top),
                                                           <<Resultado(exploracion)>>)>>
  /\ UNCHANGED <<texto, limpiezas, row, clasif, archivo, consulta, salida>>

(***************************************************************************)
(* Uploaded files                                                          *)
(***************************************************************************)
COLUMNAS_BASE == {"user_utterances", "conversation_name", "turn_position"}

Filas(C, T, U, I) ==
  {[conversation_name |-> c, turn_position |-> t, user_utterances |-> u, intent_name |-> i] :
     c \in C, t \in T, u \in U, i \in I}

\* the tables of one to MaxFilas rows drawn from F
Tablas(F, columnas) ==
  {[columnas |-> columnas, filas |-> f] : f \in UNION {[1..n -> F] : n \in 1..MaxFilas}}

\* a CSV that lacks the columns of `quitadas`
SinColumnas(a, quitadas) ==
  [columnas |-> a.columnas \ quitadas,
   filas    |-> [i \in 1..Len(a.filas) |->
                   [conversation_name |-> IF "conversation_name" \in quitadas
                                          THEN "" ELSE a.filas[i].conversation_name,
                    turn_position     |-> IF "turn_position" \in quitadas
                                          THEN 0 ELSE a.filas[i].turn_position,
                    user_utterances   |-> IF "user_utterances" \in quitadas
                                          THEN Ausente ELSE a.filas[i].user_utterances,
                    intent_name       |-> a.filas[i].intent_name]]]

PEDIDO == Str(<<"p", "e", "d", "i", "d", "o">>)
OK     == Str(<<"o", "k">>)
TRACK_ORDER == Str(<<"t", "r", "a", "c", "k", "_", "o", "r", "d", "e", "r">>)

\* files for the load: text, noise and missing utterances; an intent_name
\* column of labels, one of numbers, or none; files lacking required columns
ARCHIVOS_CARGA ==
  LET con_intent == Tablas(Filas({"A"}, {1, 2}, {PEDIDO, OK, NaN}, {NaN, TRACK_ORDER}),
                           COLUMNAS_BASE \cup {"intent_name"})
      numerico   == Tablas(Filas({"A"}, {1, 2}, {PEDIDO, OK, NaN}, {Num(<<"7">>)}),
                           COLUMNAS_BASE \cup {"intent_name"})
      sin_intent == Tablas(Filas({"A"}, {1, 2}, {PEDIDO, OK, NaN}, {Ausente}),
                           COLUMNAS_BASE)
      cortas     == {a \in con_intent \cup sin_intent : Len(a.filas) = 1}
  IN  con_intent \cup numerico \cup sin_intent
        \cup {SinColumnas(a, q) : a \in cortas, q \in (SUBSET COLUMNAS_BASE) \ {{}}}

\* files for the exploration filter: two conversations, noise and text
ARCHIVOS_EXPLORAR ==
  Tablas(Filas({"A", "B"}, {1, 2}, {PEDIDO, OK}, {Ausente}), COLUMNAS_BASE)

\* files for the metrics: two conversations, text and missing utterances
ARCHIVOS_METRICAS ==
  Tablas(Filas({"A", "B"}, {1, 2}, {PEDIDO, NaN}, {Ausente}), COLUMNAS_BASE)

\* files for the top questions: texts that repeat after normalisation
\* ("pedido", "¿Pedido?"), a basic greeting whose category is not
\* "Interacciones Generales" ("si claro": "ro" occurs in "claro"), and a sentence
\* of category "Interacciones Generales" too long for a basic greeting
ARCHIVOS_TOP ==
  Tablas(Filas({"A"}, {1},
               {PEDIDO, Str(<<"¿", "P", "e", "d", "i", "d", "o", "?">>), Str(<<"e", "n", "v", "i", "o">>),
                Str(<<"s", "i", " ", "c", "l", "a", "r", "o">>), Str(<<"h", "o", "l", "a", " ", "a", " ", "t", "i", " ", "h", "o", "y">>)},
               {Ausente}),
         COLUMNAS_BASE)

(***************************************************************************)
(* Specifications                                                          *)
(***************************************************************************)
RegistroInicial == Registro(Ausente, NaN, FALSE)

Subido(archivos) ==
  /\ SinLimpieza
  /\ row = RegistroInicial
  /\ clasif = <<>>
  /\ archivo \in archivos
  /\ estado = "inicio"
  /\ mensaje = SinMensaje
  /\ pasos = <<>>
  /\ df_original = <<>>
  /\ df_limpio = <<>>
  /\ consulta = SinConsulta
  /\ salida = <<>>
  /\ pagina = <<>>

\* the datasets a load of one of the files returned, handed to the query
\* functions
Cargado(archivos) ==
  /\ SinLimpieza
  /\ row = RegistroInicial
  /\ clasif = <<>>
  /\ archivo \in {a \in archivos : /\ cargar_y_procesar_datos(a).fin = "return"
                                   /\ cargar_y_procesar_datos(a).df_limpio # <<>>}
  /\ estado = "cargado"
  /\ mensaje = SinMensaje
  /\ pasos = cargar_y_procesar_datos(archivo).pasos
  /\ df_original = <<cargar_y_procesar_datos(archivo).df>>
  /\ df_limpio = <<cargar_y_procesar_datos(archivo).df_limpio>>
  /\ consulta = SinConsulta
  /\ salida = <<>>
  /\ pagina = <<>>

\* a run of main() on an uploaded file
Init == Subido(ARCHIVOS_CARGA)
Next == main
Spec == Init /\ [][Next]_vars

\* a run of main() on a file with noise rows
InitExplorar == Subido(ARCHIVOS_EXPLORAR)
NextExplorar == main
SpecExplorar == InitExplorar /\ [][NextExplorar]_vars

\* a run of main() on a file with missing utterances
InitMetricas == Subido(ARCHIVOS_METRICAS)
NextMetricas == main
SpecMetricas == InitMetricas /\ [][NextMetricas]_vars

\* obtener_top_preguntas on the enriched dataset of a load
InitTop == Cargado(ARCHIVOS_TOP)
NextTop == TopPreguntas
SpecTop == InitTop /\ [][NextTop]_vars

(***************************************************************************)
(* Claims about the load (checked under Spec)                              *)
(***************************************************************************)
EsquemaValido(a) == COLUMNAS_BASE \subseteq a.columnas

\* is_noise of the specification, on a normalized text
EsRuido(p) == p \in PALABRAS_RUIDO \/ Len(p) <= 2

CargaTerminada == estado # "inicio"

\* original_dataset is the input, row for row, plus the normalized text
OriginalCompleto ==
  /\ df_original # <<>>
  /\ Len(df_original[1]) = Len(archivo.filas)
  /\ \A i \in 1..Len(archivo.filas) :
       LET f == df_original[1][i]
       IN  /\ f.conversation_name = archivo.filas[i].conversation_name
           /\ f.turn_position = archivo.filas[i].turn_position
           /\ f.user_utterances = archivo.filas[i].user_utterances
           /\ f.intent_name = archivo.filas[i].intent_name
           /\ f.pregunta_limpia = limpiar_texto(archivo.filas[i].user_utterances)
           /\ {"categoria", "subcategoria", "confidence"} \cap DOMAIN f = {}

\* enriched_dataset is the sub-sequence of the non-noise rows of
\* original_dataset, each with the three classification columns
LimpioExacto ==
  /\ df_limpio # <<>>
  /\ df_original # <<>>
  /\ LET o == df_original[1]
         l == df_limpio[1]
     IN  /\ {l[k].indice : k \in 1..Len(l)}
               = {o[i].indice : i \in {j \in 1..Len(o) : ~EsRuido(o[j].pregunta_limpia)}}
         /\ \A k \in 1..(Len(l) - 1) : l[k].indice < l[k + 1].indice
         /\ \A k \in 1..Len(l) :
              /\ {"categoria", "subcategoria", "confidence"} \subseteq DOMAIN l[k]
              /\ \E i \in 1..Len(o) :
                   /\ o[i].indice = l[k].indice
                   /\ \A c \in DOMAIN o[i] : l[k][c] = o[i][c]

\* C4 (as claimed): for every table with the required columns the load yields
\* original_dataset = the input rows in order plus normalized text, without
\* classification columns, and enriched_dataset = exactly its non-noise rows,
\* classified.
C4_CargaCompleta ==
  (CargaTerminada /\ EsquemaValido(archivo)) => (OriginalCompleto /\ LimpioExacto)

\* C5: with a required column absent the load ends in an error naming exactly
\* the missing required columns; no normalization or classification step ran
\* and no dataset reached the caller.
C5_EsquemaInvalido ==
  (CargaTerminada /\ ~EsquemaValido(archivo)) =>
     /\ estado = "detenido"
     /\ mensaje.tipo = "Columnas faltantes"
     /\ Rango(mensaje.columnas) = COLUMNAS_BASE \ archivo.columnas
     /\ Len(mensaje.columnas) = Cardinality(COLUMNAS_BASE \ archivo.columnas)
     /\ \A i \in 1..Len(pasos) : pasos[i] \notin {"limpiar", "filtrar", "clasificar"}
     /\ df_original = <<>>
     /\ df_limpio = <<>>

\* C5 witness: a file with one required column present and two missing was loaded
C5_Witness ==
  /\ estado = "detenido"
  /\ archivo.filas # <<>>
  /\ Cardinality(COLUMNAS_BASE \cap archivo.columnas) = 1
  /\ Len(mensaje.columnas) = 2
  /\ pasos # <<>>

\* C9 (as claimed): a table with the required columns whose rows are all noise
\* loads without raising: the full original_dataset and an enriched dataset of
\* zero rows are returned and main reports "no data", not a processing error.
C9_SinDatos ==
  (/\ CargaTerminada
   /\ EsquemaValido(archivo)
   /\ \A i \in 1..Len(archivo.filas) :
        EsRuido(limpiar_texto(archivo.filas[i].user_utterances))) =>
     /\ estado = "sin_datos"
     /\ OriginalCompleto
     /\ df_limpio = << <<>> >>

(***************************************************************************)
(* Claims about the queries                                                *)
(***************************************************************************)
\* C6 (as claimed, checked under SpecExplorar): the filter keeps a row of the
\* category/subcategory-filtered enriched dataset exactly when the maximum
\* turn_position of its conversation over original_dataset, noise rows
\* included, is at least min_turns.
C6_TurnosSobreOriginal ==
  estado = "cargado" =>
     LET e == pagina[1].exploracion[1]
         porCategoria ==
           SelectSeq(df_limpio[1], LAMBDA f :
             /\ (e.categoria = TODAS \/ f.categoria = e.categoria)
             /\ (e.subcategoria = TODAS \/ f.subcategoria = e.subcategoria))
         maxOriginal(c) ==
           MaxDe({df_original[1][i].turn_position :
                    i \in {j \in 1..Len(df_original[1]) :
                             df_original[1][j].conversation_name = c}})
     IN  e.df_filtrado = SelectSeq(porCategoria, LAMBDA f :
                           maxOriginal(f.conversation_name) >= e.turnos_min)

\* C7 (as claimed, checked under SpecMetricas): one aggregate per distinct
\* conversation_id, with max_turns the largest turn_position and
\* interaction_count the number of rows of the conversation, rows with a missing
\* utterance included; total_conversations counts the conversations and the
\* interaction counts add up to total_interactions, the number of rows.
C7_Agregados ==
  estado = "cargado" =>
     LET df   == df_original[1]
         m    == pagina[1].metricas
         agg  == m.conversaciones_df
         ids  == {df[i].conversation_name : i \in 1..Len(df)}
         filasDe(c) == {i \in 1..Len(df) : df[i].conversation_name = c}
     IN  /\ ~m.vacio
         /\ \A c \in ids :
              Cardinality({k \in 1..Len(agg) : agg[k].conversation_name = c}) = 1
         /\ \A k \in 1..Len(agg) :
              /\ agg[k].conversation_name \in ids
              /\ agg[k].max_turnos
                   = MaxDe({df[i].turn_position : i \in filasDe(agg[k].conversation_name)})
              /\ agg[k].total_interacciones
                   = Cardinality(filasDe(agg[k].conversation_name))
         /\ m.total_conversaciones = Cardinality(ids)
         /\ m.total_interacciones = Len(df)
         /\ Suma([k \in 1..Len(agg) |-> agg[k].total_interacciones]) = m.total_interacciones

\* the rows top_questions retains, as the claim states them
Retenidas ==
  IF consulta.filtrar_saludos
  THEN SelectSeq(df_limpio[1], LAMBDA f :
         ~es_saludo_basico(Str(f.pregunta_limpia)) /\ f.categoria # INTERACCIONES_GENERALES)
  ELSE df_limpio[1]

FrecuenciaDe(p) ==
  Cardinality({i \in 1..Len(Retenidas) : Retenidas[i].pregunta_limpia = p})

PrimeraAparicion(p) ==
  MinDe({i \in 1..Len(Retenidas) : Retenidas[i].pregunta_limpia = p})

\* the ranking but for the ties: at most n distinct texts of the retained rows, each
\* with its number of retained rows, counts non-increasing, no text left out
\* that occurs more often than a listed one, and nothing left out while there is
\* room
RankingCorrecto ==
  LET t      == salida[1]
      textos == {Retenidas[i].pregunta_limpia : i \in 1..Len(Retenidas)}
  IN  /\ Len(t) <= consulta.n
      /\ \A i, j \in 1..Len(t) : i # j => t[i].Pregunta # t[j].Pregunta
      /\ \A i \in 1..Len(t) :
           /\ t[i].Pregunta \in textos
           /\ t[i].Frecuencia = FrecuenciaDe(t[i].Pregunta)
      /\ \A i \in 1..(Len(t) - 1) : t[i].Frecuencia >= t[i + 1].Frecuencia
      /\ \A p \in textos :
           (\A i \in 1..Len(t) : t[i].Pregunta # p) =>
              /\ Len(t) = consulta.n
              /\ \A i \in 1..Len(t) : t[i].Frecuencia >= FrecuenciaDe(p)

FilaEscenario(c, t, u) ==
  [conversation_name |-> c, turn_position |-> t, user_utterances |-> u,
   intent_name |-> Ausente]

HOLA               == Str(<<"H", "o", "l", "a">>)
QUIERO_RASTREAR    == Str(<<"q", "u", "i", "e", "r", "o", " ", "r", "a", "s", "t", "r", "e", "a", "r", " ", "m", "i", " ", "p", "e", "d", "i", "d", "o">>)
HOLA_BUENOS_DIAS   == Str(<<"h", "o", "l", "a", " ", "b", "u", "e", "n", "o", "s", " ", "d", "i", "a", "s">>)

ARCHIVO_ESCENARIO ==
  [columnas |-> COLUMNAS_BASE,
   filas    |-> <<FilaEscenario("A", 1, HOLA),
                  FilaEscenario("A", 2, QUIERO_RASTREAR),
                  FilaEscenario("B", 1, HOLA_BUENOS_DIAS)>>]

\* the files made of the scenario's rows and of a noise row, in any order
ARCHIVOS_ESCENARIO ==
  Tablas({FilaEscenario("A", 1, HOLA), FilaEscenario("A", 2, QUIERO_RASTREAR),
          FilaEscenario("B", 1, HOLA_BUENOS_DIAS), FilaEscenario("A", 3, OK)},
         COLUMNAS_BASE)

\* a run of main() on the file
InitEscenario == Subido(ARCHIVOS_ESCENARIO)
NextEscenario == main
SpecEscenario == InitEscenario /\ [][NextEscenario]_vars

\* C11: loading (A, 1, 'Hola'), (A, 2, 'quiero rastrear mi pedido'),
\* (B, 1, 'hola buenos dias') without intent labels gives the normalized texts
\* 'hola' and 'quiero rastrear mi pedido' for conversation A, keeps the 'hola'
\* row in the enriched dataset as ("Interacciones Generales", "Saludos y
\* Cortesía"), and the aggregate of conversation A has max_turns = 2.
C11_Escenario ==
  (archivo = ARCHIVO_ESCENARIO /\ estado # "inicio") =>
     /\ estado = "cargado"
     /\ Len(df_original[1]) = 3
     /\ df_original[1][1].conversation_name = "A"
     /\ df_original[1][1].pregunta_limpia = <<"h", "o", "l", "a">>
     /\ df_original[1][2].conversation_name = "A"
     /\ df_original[1][2].pregunta_limpia = <<"q", "u", "i", "e", "r", "o", " ", "r", "a", "s", "t", "r", "e", "a", "r", " ", "m", "i", " ", "p", "e", "d", "i", "d", "o">>
     /\ \E k \in 1..Len(df_limpio[1]) :
          /\ df_limpio[1][k].indice = 0
          /\ df_limpio[1][k].pregunta_limpia = <<"h", "o", "l", "a">>
          /\ df_limpio[1][k].categoria = <<"I", "n", "t", "e", "r", "a", "c", "c", "i", "o", "n", "e", "s", " ", "G", "e", "n", "e", "r", "a", "l", "e", "s">>
          /\ df_limpio[1][k].subcategoria = <<"S", "a", "l", "u", "d", "o", "s", " ", "y", " ", "C", "o", "r", "t", "e", "s", "í", "a">>
     /\ \E k \in 1..Len(pagina[1].metricas.conversaciones_df) :
          /\ pagina[1].metricas.conversaciones_df[k].conversation_name = "A"
          /\ pagina[1].metricas.conversaciones_df[k].max_turnos = 2

\* C11 witness: main() ran on the scenario file and showed its metrics
C11_Witness ==
  /\ archivo = ARCHIVO_ESCENARIO
  /\ estado = "cargado"
  /\ Len(df_limpio[1]) = 3
  /\ pagina[1].metricas.total_conversaciones = 2

(***************************************************************************)
(* Specification of the normalizer alone: one value, limpiar_texto applied *)
(* to it and then to its own result                                        *)
(***************************************************************************)
\* characters of a text handed to limpiar_texto
MaxTexto == 4

\* an upper-case and a lower-case letter, accented letters, an upper-case
\* letter without lower-case form, a digit, the underscore, punctuation and
\* the two whitespace characters
ALFABETO == {"A", "a", "Á", "ñ", "U+2102", "1", "_", "!", " ", "\t"}

TEXTOS == UNION {[1..n -> ALFABETO] : n \in 0..MaxTexto}

\* a missing cell, a number, and every text of the alphabet
VALORES == {NaN, Num(<<"7">>)} \cup {Str(t) : t \in TEXTOS}

InitLimpiar ==
  /\ texto \in VALORES
  /\ limpiezas = <<>>
  /\ row = RegistroInicial
  /\ clasif = <<>>
  /\ SesionInicial

\* limpiar_texto(texto), then limpiar_texto of what it returned
Limpiar ==
  /\ Len(limpiezas) < 2
  /\ limpiezas' = Append(limpiezas,
                         limpiar_texto(IF limpiezas = <<>> THEN texto
                                       ELSE Str(limpiezas[Len(limpiezas)])))
  /\ UNCHANGED <<texto, row, clasif, sesion>>

NextLimpiar == Limpiar
SpecLimpiar == InitLimpiar /\ [][NextLimpiar]_vars

\* what every result of limpiar_texto satisfies but for the letter case
LimpiezaTotal ==
  /\ (texto.t # "str" /\ limpiezas # <<>>) => limpiezas[1] = <<>>
  /\ Len(limpiezas) = 2 => limpiezas[2] = limpiezas[1]
  /\ \A k \in 1..Len(limpiezas) :
       LET s == limpiezas[k]
       IN  /\ s # <<>> => (s[1] \notin Espacios /\ s[Len(s)] \notin Espacios)
           /\ \A i \in 1..(Len(s) - 1) : ~(s[i] \in Espacios /\ s[i + 1] \in Espacios)

\* C12 as stated: limpiar_texto is total and idempotent, and its output never
\* has leading or trailing whitespace, two consecutive whitespace characters
\* or an upper-case letter.
C12_NormalizadorOriginal ==
  /\ LimpiezaTotal
  /\ \A k \in 1..Len(limpiezas) :
       \A i \in 1..Len(limpiezas[k]) : ~EsMayuscula(limpiezas[k][i])

\* C12 amended: limpiar_texto is total and idempotent, and its output never
\* has leading or trailing whitespace, two consecutive whitespace characters
\* or an upper-case letter that has a lower-case form; every other character
\* of the output is a word character of the lower-cased input.
C12_Normalizador ==
  /\ LimpiezaTotal
  /\ \A k \in 1..Len(limpiezas) :
       \A i \in 1..Len(limpiezas[k]) :
         /\ limpiezas[k][i] \notin Rango(Mayusculas)
         /\ limpiezas[k][i] = " " \/ EsPalabra(limpiezas[k][i])

\* C12 witness: a text with an upper-case letter and, between two word
\* characters, a run of two characters that are whitespace or punctuation, was
\* normalized twice, to two lower-case words one space apart
C12_Witness ==
  /\ texto.t = "str"
  /\ Len(limpiezas) = 2
  /\ Len(texto.v) = 4
  /\ texto.v[1] \in Rango(Mayusculas)
  /\ EsPalabra(texto.v[4])
  /\ \A i \in 2..3 : ~EsPalabra(texto.v[i])
  /\ \E i \in 2..3 : texto.v[i] \in Espacios
  /\ \E i \in 2..3 : texto.v[i] \notin Espacios
  /\ limpiezas[1] = <<lower(texto.v[1]), " ", lower(texto.v[4])>>

(***************************************************************************)
(* Specification of the load for the confidence of the classification      *)
(***************************************************************************)
XYZ             == Str(<<"x", "y", "z">>)
SOLO_OTROS      == Str(<<"o", "t", "r", "o", "s">>)
TODO_OTROS      == Str(<<"o", "t", "r", "o", "s", " ", "m", "i", "s", "c", "e", "l", "a", "n", "e", "o", "s", " ", "s", "i", "n", " ", "c", "a", "t", "e", "g", "o", "r", "i", "a">>)

\* rows without a keyword, with one and with every keyword of "Sin
\* Clasificar"/"Otros"; with and without a native intent; all at turn 2, so
\* that the slider of the exploration has a range
ARCHIVOS_CONFIANZA ==
  Tablas(Filas({"A"}, {2}, {XYZ, SOLO_OTROS, TODO_OTROS}, {NaN, TRACK_ORDER}),
         COLUMNAS_BASE \cup {"intent_name"})

InitConfianza == Subido(ARCHIVOS_CONFIANZA)
NextConfianza == main
SpecConfianza == InitConfianza /\ [][NextConfianza]_vars

\* some keyword of the taxonomy is a substring of the text
AlgunaKeyword(p) ==
  \E i \in Entradas : \E k \in 1..Len(CATEGORIAS_SUBCATEGORIAS[i].keywords) :
    EsSubcadena(CATEGORIAS_SUBCATEGORIAS[i].keywords[k], p)

EsFallback(f) == f.categoria = SIN_CLASIFICAR /\ f.subcategoria = OTROS

\* C14: every row of every enriched dataset has a confidence in [0, 1]: 0.9
\* for an intent override, above 0 and at most 1 for a keyword-scored result,
\* and 0.0 only for the fallback ("Sin Clasificar", "Otros"); a "Sin
\* Clasificar" result of the keyword scoring has a confidence above 0.
C14_Confianza ==
  df_limpio # <<>> =>
    \A k \in 1..Len(df_limpio[1]) :
      LET f == df_limpio[1][k]
          n == f.confidence[1]
          d == f.confidence[2]
          override == ~SinIntent(f)
          keyword  == SinIntent(f) /\ AlgunaKeyword(f.pregunta_limpia)
      IN  /\ d > 0 /\ 0 <= n /\ n <= d
          /\ override => (n * 10 = 9 * d /\ f.subcategoria = POR_INTENT)
          /\ keyword => n > 0
          /\ (~override /\ ~keyword) => (n = 0 /\ EsFallback(f))
          /\ n = 0 => (EsFallback(f) /\ ~override /\ ~keyword)
          /\ (keyword /\ f.categoria = SIN_CLASIFICAR) => n > 0

\* C14 witness: an enriched dataset with a fallback row, an override row and
\* a "Sin Clasificar" row scored 3/3 by its keywords
C14_Witness ==
  /\ estado = "cargado"
  /\ \E k \in 1..Len(df_limpio[1]) :
       df_limpio[1][k].confidence[1] = 0 /\ EsFallback(df_limpio[1][k])
  /\ \E k \in 1..Len(df_limpio[1]) : df_limpio[1][k].subcategoria = POR_INTENT
  /\ \E k \in 1..Len(df_limpio[1]) :
       /\ df_limpio[1][k].categoria = SIN_CLASIFICAR
       /\ SinIntent(df_limpio[1][k])
       /\ df_limpio[1][k].confidence = <<3, 3>>

(***************************************************************************)
(* Specification of the queries together: on the datasets of a load, the   *)
(* metrics, the filter, the top questions and the download, in any order   *)
(***************************************************************************)
ARCHIVOS_CONSULTAS ==
  Tablas({FilaEscenario("A", 1, PEDIDO), FilaEscenario("A", 2, HOLA),
          FilaEscenario("B", 1, PEDIDO), FilaEscenario("B", 1, OK)},
         COLUMNAS_BASE)

InitConsultas == Cargado(ARCHIVOS_CONSULTAS)
NextConsultas == Metricas \/ Filtrar \/ TopPreguntas \/ Descargar
SpecConsultas == InitConsultas /\ [][NextConsultas]_vars

\* C15: after a successful load, whatever metrics, filter, top-questions and
\* download-serialization calls were made, the original and the enriched
\* dataset are still what the load of the file produced (rows, row order,
\* normalized text, category, subcategory, confidence); what the last call
\* returned is an object of its own, and it is what the call returns on the
\* datasets of the load with its arguments, whichever calls came before.
C15_SoloLectura ==
  estado = "cargado" =>
    LET fria == cargar_y_procesar_datos(archivo)
    IN  /\ df_original = <<fria.df>>
        /\ df_limpio = <<fria.df_limpio>>
        /\ consulta.op # "" => consulta.nuevo
        /\ consulta.op = "metricas" =>
             salida = <<calcular_metricas_conversacion(fria.df)>>
        /\ consulta.op = "filtrar" =>
             LET f == aplicar_filtros(fria.df_limpio, consulta.categoria,
                                      consulta.subcategoria, consulta.turnos_min)
             IN  salida = <<f>>
        /\ consulta.op = "descarga" =>
             salida = <<preparar_datos_descarga(fria.df_limpio)>>
        /\ consulta.op = "top" =>
             salida[1] \in obtener_top_preguntas(fria.df_limpio, consulta.n,
                                                 consulta.filtrar_saludos)

\* C15 witness: on the datasets of a file with a noise row, a filter that
\* keeps only part of the enriched rows returned them in a frame of its own
C15_Witness ==
  /\ estado = "cargado"
  /\ consulta.op = "filtrar"
  /\ consulta.nuevo
  /\ Len(df_limpio[1]) < Len(df_original[1])
  /\ salida[1] # <<>>
  /\ Len(salida[1]) < Len(df_limpio[1])

(***************************************************************************)
(* Specification of the filter on turn positions that start at 0           *)
(***************************************************************************)
ARCHIVOS_FILTRO ==
  Tablas({FilaEscenario("A", 0, PEDIDO), FilaEscenario("A", 1, HOLA),
          FilaEscenario("A", 2, PEDIDO), FilaEscenario("B", 0, PEDIDO),
          FilaEscenario("B", 0, HOLA)},
         COLUMNAS_BASE)

InitFiltro == Cargado(ARCHIVOS_FILTRO)
NextFiltro == Filtrar
SpecFiltro == InitFiltro /\ [][NextFiltro]_vars

\* the filter was called with its default arguments
PorDefecto ==
  /\ consulta.op = "filtrar"
  /\ consulta.categoria = TODAS
  /\ consulta.subcategoria = TODAS
  /\ consulta.turnos_min = 1

\* the result is the rows of the given dataset, in their order, of the category
\* and subcategory asked for and of a conversation that has a turn_position of
\* at least turnos_min; it is within the result of every smaller turnos_min
FiltroSubconjunto ==
  consulta.op = "filtrar" =>
    /\ salida[1] =
         SelectSeq(df_limpio[1], LAMBDA f :
           /\ consulta.categoria # TODAS => f.categoria = consulta.categoria
           /\ consulta.subcategoria # TODAS => f.subcategoria = consulta.subcategoria
           /\ \E i \in 1..Len(df_limpio[1]) :
                /\ df_limpio[1][i].conversation_name = f.conversation_name
                /\ df_limpio[1][i].turn_position >= consulta.turnos_min)
    /\ \A t \in 1..consulta.turnos_min :
         Rango(salida[1]) \subseteq
           Rango(aplicar_filtros(df_limpio[1], consulta.categoria,
                                 consulta.subcategoria, t))

\* C16 as stated: with its default arguments aplicar_filtros returns every row
\* of a dataset of non-negative turn positions, in the same order, and for any
\* arguments the result is a subset of the rows that shrinks as turnos_min
\* grows.
C16_FiltroOriginal ==
  /\ PorDefecto => salida[1] = df_limpio[1]
  /\ FiltroSubconjunto

\* C16 amended: with its default arguments aplicar_filtros returns every row,
\* in the same order, of a dataset in which every conversation has a
\* turn_position of at least 1 (the rows of a conversation whose turn
\* positions are all 0 are dropped), and for any arguments the result is a
\* subset of the rows that shrinks as turnos_min grows.
C16_Filtro ==
  /\ (/\ PorDefecto
      /\ \A i \in 1..Len(df_limpio[1]) : \E j \in 1..Len(df_limpio[1]) :
           /\ df_limpio[1][j].conversation_name = df_limpio[1][i].conversation_name
           /\ df_limpio[1][j].turn_position >= 1)
     => salida[1] = df_limpio[1]
  /\ PorDefecto =>
       salida[1] = SelectSeq(df_limpio[1], LAMBDA f :
                     \E j \in 1..Len(df_limpio[1]) :
                       /\ df_limpio[1][j].conversation_name = f.conversation_name
                       /\ df_limpio[1][j].turn_position >= 1)
  /\ FiltroSubconjunto

\* C16 witness: the default filter returned every row of a dataset that has a
\* row at turn 0 in a conversation with a later turn
C16_Witness ==
  /\ PorDefecto
  /\ Len(df_limpio[1]) >= 2
  /\ salida[1] = df_limpio[1]
  /\ \E i \in 1..Len(df_limpio[1]) : df_limpio[1][i].turn_position = 0

====
